---------------------------- MODULE Spec2Model ----------------------------
(***************************************************************************)
(* A model of fetch_dora_metrics.py: the DataSightDORAFetcher class (the   *)
(* five fetch operations, the filtered lead-time fan-out, the record       *)
(* enrichment, the two CSV renderers) and the part of main() that drives   *)
(* them.                                                                   *)
(*                                                                         *)
(* Python values are modelled as tagged records (see JNull .. JDict), a    *)
(* Python dict whose keys are not fixed by the code as an insertion        *)
(* ordered sequence of [k, v] entries, and Python strings as TLA+ strings  *)
(* on which lower(), "in", strip() and float() are computed character by   *)
(* character.                                                              *)
(***************************************************************************)
EXTENDS Integers, Sequences, FiniteSets, TLC

VARIABLES
    pc,                 \* control position of the operation being run
    call,               \* the fetch operation in progress / last returned, with its HTTP outcome
    exc,                \* the exception propagating out of the operation, NoExc if none
    results,            \* fetch_all_metrics: results['metrics'] and results['detailed_records']
    requests_log,       \* every HTTP GET issued so far, in order
    responses_log,      \* the outcome of every GET that has returned, in order
    min_lttd_days,      \* fetch_filtered_lttd_records: the threshold argument
    lttd_data,          \* fetch_filtered_lttd_records: the metric records being iterated
    key_idx,            \* fetch_filtered_lttd_records: index of the current metric record
    records,            \* fetch_filtered_lttd_records: the detail records of the current key
    record,             \* the loop variable `record` (also _enrich_lttd_record's argument)
    lttd_eligible,      \* local of the filter loop
    lttd_days,          \* local of the filter loop, after coercion
    matched,            \* whether the last loop iteration executed lines 292-294
    filtered_records,   \* the accumulator / return value of fetch_filtered_lttd_records
    enriched,           \* _enrich_lttd_record: the returned record
    fetch_details,      \* fetch_all_metrics: the fetch_details argument
    files,              \* the file system: output path -> rows handed to csv.writer
    base_url,           \* main: the resolved base URL
    bearer_token,       \* main: the resolved bearer token
    args,               \* main: from_date, to_date, teambook_ids, teambook_level
    level_answer,       \* main: the last answer read at the teambook-level prompt
    report_type,        \* main: the answer read at the report-type prompt
    confirm             \* main: the answer read at the confirmation prompt

vars == <<pc, call, exc, results, requests_log, responses_log, min_lttd_days, lttd_data, key_idx,
          records, record, lttd_eligible, lttd_days, matched,
          filtered_records, enriched, fetch_details, files,
          base_url, bearer_token, args, level_answer, report_type, confirm>>

\* The locals of main() that the operations of the fetcher leave alone.
main_vars == <<base_url, bearer_token, args, level_answer, report_type, confirm>>

---------------------------------------------------------------------------
(* Python / JSON values *)

JNull == [t |-> "null"]
JBool(b) == [t |-> "bool", b |-> b]
JNum(n) == [t |-> "num", n |-> n]
JStr(s) == [t |-> "str", s |-> s]
JList(xs) == [t |-> "list", xs |-> xs]
JDict(d) == [t |-> "dict", d |-> d]

\* bool(v): Python truthiness, as used by `if x`, `not x`, `a and b`
Truthy(v) ==
    CASE v.t = "null" -> FALSE
      [] v.t = "bool" -> v.b
      [] v.t = "num"  -> v.n # 0
      [] v.t = "str"  -> v.s # ""
      [] v.t = "list" -> v.xs # <<>>
      [] v.t = "dict" -> v.d # <<>>

\* An insertion-ordered dict: a sequence of entries with pairwise distinct keys.
Entry(k, v) == [k |-> k, v |-> v]

HasKey(d, k) == \E i \in 1..Len(d) : d[i].k = k

\* d.get(k, default)
DictGet(d, k, default) ==
    IF HasKey(d, k) THEN d[CHOOSE i \in 1..Len(d) : d[i].k = k].v ELSE default

\* d[k] = v : an existing key keeps its position, a new key goes last
DictSet(d, k, v) ==
    IF HasKey(d, k)
    THEN [i \in 1..Len(d) |-> IF d[i].k = k THEN Entry(k, v) ELSE d[i]]
    ELSE Append(d, Entry(k, v))

\* list(d.keys())
DictKeys(d) == [i \in 1..Len(d) |-> d[i].k]

---------------------------------------------------------------------------
(* Python strings *)

UpperToLower ==
    [c \in {"A","B","C","D","E","F","G","H","I","J","K","L","M",
            "N","O","P","Q","R","S","T","U","V","W","X","Y","Z"} |->
        CASE c = "A" -> "a" [] c = "B" -> "b" [] c = "C" -> "c" [] c = "D" -> "d"
          [] c = "E" -> "e" [] c = "F" -> "f" [] c = "G" -> "g" [] c = "H" -> "h"
          [] c = "I" -> "i" [] c = "J" -> "j" [] c = "K" -> "k" [] c = "L" -> "l"
          [] c = "M" -> "m" [] c = "N" -> "n" [] c = "O" -> "o" [] c = "P" -> "p"
          [] c = "Q" -> "q" [] c = "R" -> "r" [] c = "S" -> "s" [] c = "T" -> "t"
          [] c = "U" -> "u" [] c = "V" -> "v" [] c = "W" -> "w" [] c = "X" -> "x"
          [] c = "Y" -> "y" [] c = "Z" -> "z"]

RECURSIVE StrLower(_)
\* s.lower()
StrLower(s) ==
    IF Len(s) = 0 THEN ""
    ELSE LET c == SubSeq(s, 1, 1)
         IN  (IF c \in DOMAIN UpperToLower THEN UpperToLower[c] ELSE c)
                \o StrLower(SubSeq(s, 2, Len(s)))

\* sub in s
StrContains(sub, s) ==
    \E i \in 1..(Len(s) - Len(sub) + 1) : SubSeq(s, i, i + Len(sub) - 1) = sub

IsSpace(c) == c \in {" ", "\t", "\n", "\r"}

RECURSIVE StrLStrip(_)
StrLStrip(s) ==
    IF Len(s) > 0 /\ IsSpace(SubSeq(s, 1, 1)) THEN StrLStrip(SubSeq(s, 2, Len(s))) ELSE s

RECURSIVE StrRStrip(_)
StrRStrip(s) ==
    IF Len(s) > 0 /\ IsSpace(SubSeq(s, Len(s), Len(s)))
    THEN StrRStrip(SubSeq(s, 1, Len(s) - 1)) ELSE s

\* s.strip()
StrStrip(s) == StrRStrip(StrLStrip(s))

DigitValue ==
    [c \in {"0","1","2","3","4","5","6","7","8","9"} |->
        CASE c = "0" -> 0 [] c = "1" -> 1 [] c = "2" -> 2 [] c = "3" -> 3 [] c = "4" -> 4
          [] c = "5" -> 5 [] c = "6" -> 6 [] c = "7" -> 7 [] c = "8" -> 8 [] c = "9" -> 9]

AllDigits(s) ==
    Len(s) > 0 /\ \A i \in 1..Len(s) : SubSeq(s, i, i) \in DOMAIN DigitValue

RECURSIVE DigitsValue(_)
DigitsValue(s) ==
    IF Len(s) = 0 THEN 0
    ELSE 10 * DigitsValue(SubSeq(s, 1, Len(s) - 1)) + DigitValue[SubSeq(s, Len(s), Len(s))]


---------------------------------------------------------------------------
(* The HTTP layer: requests.get, Response.raise_for_status, Response.json *)

\* The body of a response that is not parseable as JSON.
Malformed == [t |-> "malformed"]

\* requests.exceptions, each class with its base class.  Response.json()
\* raises requests.exceptions.JSONDecodeError, a subclass of InvalidJSONError
\* and so of RequestException (requests 2.27 and later).
ExcBase ==
    [c \in {"ConnectionError", "Timeout", "HTTPError", "JSONDecodeError",
            "InvalidJSONError", "RequestException", "OSError", "Exception"} |->
        CASE c = "ConnectionError"  -> "RequestException"
          [] c = "Timeout"          -> "RequestException"
          [] c = "HTTPError"        -> "RequestException"
          [] c = "JSONDecodeError"  -> "InvalidJSONError"
          [] c = "InvalidJSONError" -> "RequestException"
          [] c = "RequestException" -> "OSError"
          [] c = "OSError"          -> "Exception"
          [] c = "Exception"        -> "Exception"]

RECURSIVE IsSubclass(_, _)
\* issubclass(c, base): what `except base` matches
IsSubclass(c, base) ==
    IF c = base THEN TRUE
    ELSE IF ExcBase[c] = c THEN FALSE
    ELSE IsSubclass(ExcBase[c], base)

NoExc == [cls |-> "None", msg |-> ""]
Exc(cls, msg) == [cls |-> cls, msg |-> msg]

StatusText ==
    [c \in {200, 404, 500} |->
        CASE c = 200 -> "200" [] c = 404 -> "404" [] c = 500 -> "500"]

\* What requests.get can do: raise a transport failure, or return a response
\* with a status code and a body.
TransportFailures ==
    { [kind |-> "raise", exc |-> Exc("ConnectionError", "Max retries exceeded")],
      [kind |-> "raise", exc |-> Exc("Timeout", "Read timed out")] }

Response(status_code, body) == [kind |-> "response", status_code |-> status_code, body |-> body]

\* response.raise_for_status(): the HTTPError for a 4xx/5xx status, NoExc otherwise
raise_for_status(response) ==
    IF response.status_code >= 400 /\ response.status_code < 500
    THEN Exc("HTTPError", StatusText[response.status_code] \o " Client Error")
    ELSE IF response.status_code >= 500 /\ response.status_code < 600
    THEN Exc("HTTPError", StatusText[response.status_code] \o " Server Error")
    ELSE NoExc

\* response.json(): the parsed body, or JSONDecodeError for a malformed one
json_exc(response) ==
    IF response.body = Malformed
    THEN Exc("JSONDecodeError", "Expecting value: line 1 column 1 (char 0)")
    ELSE NoExc

\* The try block of a fetch operation (requests.get; raise_for_status; json):
\* the exception it ends with (NoExc if none) and the parsed body.
TryBlock(outcome) ==
    IF outcome.kind = "raise" THEN [exc |-> outcome.exc, value |-> JNull]
    ELSE IF raise_for_status(outcome) # NoExc
    THEN [exc |-> raise_for_status(outcome), value |-> JNull]
    ELSE IF json_exc(outcome) # NoExc
    THEN [exc |-> json_exc(outcome), value |-> JNull]
    ELSE [exc |-> NoExc, value |-> outcome.body]

\* Mutant: the except clause names HTTPError only.
ExceptClause_HTTPErrorOnly(e) == IsSubclass(e.cls, "HTTPError")

\* `except requests.exceptions.RequestException as e`
ExceptClause(e) == IsSubclass(e.cls, "RequestException")

\* What a Python call ends with: a returned value or a propagating exception.
NoValue == [status |-> "none"]
Returned(v) == [exc |-> NoExc, ret |-> v]
Raised(e) == [exc |-> e, ret |-> NoValue]

fetch_release_frequency(outcome) ==
    LET r == TryBlock(outcome)
    IN  IF r.exc = NoExc
        THEN Returned([metric |-> "Release Frequency", status |-> "success", data |-> r.value])
        ELSE IF ExceptClause(r.exc)
        THEN Returned([metric |-> "Release Frequency", status |-> "error",
                       error |-> r.exc.msg, data |-> JNull])
        ELSE Raised(r.exc)

fetch_lttd(outcome) ==
    LET r == TryBlock(outcome)
    IN  IF r.exc = NoExc
        THEN Returned([metric |-> "Lead Time to Deploy (LTTD)", status |-> "success",
                       data |-> r.value])
        ELSE IF ExceptClause(r.exc)
        THEN Returned([metric |-> "Lead Time to Deploy (LTTD)", status |-> "error",
                       error |-> r.exc.msg, data |-> JNull])
        ELSE Raised(r.exc)

\* Mutant: fetch_mttr copied from fetch_lttd with the metric name left as it was.
fetch_mttr_WrongName(outcome) ==
    LET r == TryBlock(outcome)
    IN  IF r.exc = NoExc
        THEN Returned([metric |-> "Mean Time to Recovery (MTTR)", status |-> "success",
                       data |-> r.value])
        ELSE IF ExceptClause(r.exc)
        THEN Returned([metric |-> "Lead Time to Deploy (LTTD)", status |-> "error",
                       error |-> r.exc.msg, data |-> JNull])
        ELSE Raised(r.exc)

fetch_mttr(outcome) ==
    LET r == TryBlock(outcome)
    IN  IF r.exc = NoExc
        THEN Returned([metric |-> "Mean Time to Recovery (MTTR)", status |-> "success",
                       data |-> r.value])
        ELSE IF ExceptClause(r.exc)
        THEN Returned([metric |-> "Mean Time to Recovery (MTTR)", status |-> "error",
                       error |-> r.exc.msg, data |-> JNull])
        ELSE Raised(r.exc)

fetch_cfr(outcome) ==
    LET r == TryBlock(outcome)
    IN  IF r.exc = NoExc
        THEN Returned([metric |-> "Change Failure Rate (CFR)", status |-> "success",
                       data |-> r.value])
        ELSE IF ExceptClause(r.exc)
        THEN Returned([metric |-> "Change Failure Rate (CFR)", status |-> "error",
                       error |-> r.exc.msg, data |-> JNull])
        ELSE Raised(r.exc)

fetch_lttd_records(outcome) ==
    LET r == TryBlock(outcome)
    IN  IF r.exc = NoExc
        THEN Returned([status |-> "success", data |-> r.value])
        ELSE IF ExceptClause(r.exc)
        THEN Returned([status |-> "error", error |-> r.exc.msg, data |-> JNull])
        ELSE Raised(r.exc)

\* The GET each operation issues: endpoint path and query parameters.
MetricParams(a, page, size) ==
    [from |-> a.from_date, to |-> a.to_date, teambookIds |-> a.teambook_ids,
     teambookLevel |-> a.teambook_level, page |-> page, size |-> size]

MetricRequest(op, a, page, size) ==
    [op |-> op,
     endpoint |-> CASE op = "fetch_release_frequency" ->
                            "/releases/metric/release-frequency/teambook/metric"
                    [] op = "fetch_lttd" -> "/releases/metric/lttd/teambook/metric"
                    [] op = "fetch_mttr" -> "/incident/metric/mttr/by-service/teambook/metric"
                    [] op = "fetch_cfr"  -> "/releases/metric/cfr/teambook/metric",
     params |-> MetricParams(a, page, size)]

RecordsRequest(agg_key, page, size) ==
    [op |-> "fetch_lttd_records",
     endpoint |-> "/releases/metric/lttd/teambook/records",
     params |-> [aggKey |-> agg_key, page |-> page, size |-> size]]

\* Dispatch on the operation a request belongs to.
FetchOp(op, outcome) ==
    CASE op = "fetch_release_frequency" -> fetch_release_frequency(outcome)
      [] op = "fetch_lttd"              -> fetch_lttd(outcome)
      [] op = "fetch_mttr"              -> fetch_mttr(outcome)
      [] op = "fetch_cfr"               -> fetch_cfr(outcome)
      [] op = "fetch_lttd_records"      -> fetch_lttd_records(outcome)

---------------------------------------------------------------------------
(* Inputs: what the caller passes and what the server may answer *)

\* Length bound on the detail-record list of one records response.
MaxRecords == 2

\* All sequences over S of length at most n.
RECURSIVE SeqsUpTo(_, _)
SeqsUpTo(S, n) ==
    IF n = 0 THEN {<<>>}
    ELSE LET shorter == SeqsUpTo(S, n - 1)
         IN  shorter \cup {Append(q, x) : q \in {r \in shorter : Len(r) = n - 1}, x \in S}

\* from_date, to_date, teambook_ids, teambook_level as main() passes them on
FetchArgs ==
    [from_date |-> "2025-09", to_date |-> "2025-10", teambook_ids |-> "5449",
     teambook_level |-> 3]

\* datetime.now().isoformat()
Timestamp == "2025-10-01T12:00:00"

OutputFile == "report.csv"

\* The base URL and the bearer token the configuration resolves to
BaseUrl == "https://datasight.example"
BearerToken == "token-1"

\* Default page, and the sizes the code passes
DefaultPage == 1
DefaultSize == 50
FilteredDetailSize == 100

\* A response body of the metric endpoints: a JSON object, with (when present)
\* a "data" list of metric records.
MetricBody(rows) ==
    JDict(<<Entry("count", JNum(Len(rows))), Entry("data", JList(rows))>>)

EmptyBody == JDict(<<>>)

RfRecord ==
    JDict(<<Entry("yearMonth", JStr("2025-09")), Entry("releases", JNum(7)),
            Entry("l1_teambook", JStr("GB"))>>)

MttrRecord ==
    JDict(<<Entry("yearMonth", JStr("2025-09")), Entry("mttr", JNum(4)),
            Entry("aggKey", JStr("M1"))>>)

CfrRecord ==
    JDict(<<Entry("yearMonth", JStr("2025-09")), Entry("change_failure_rate", JNum(2)),
            Entry("releases", JNum(7))>>)

LttdRecord(key) ==
    JDict(<<Entry("yearMonth", JStr("2025-09")), Entry("lttd", JNum(12)),
            Entry("aggKey", JStr(key))>>)

LttdRecordNoKey == JDict(<<Entry("yearMonth", JStr("2025-08")), Entry("lttd", JNum(3))>>)

\* The lead-time metric responses: no data, an empty list, one key, two keys
\* in either order, a record without aggKey, a record with an empty aggKey.
LttdBodies ==
    { EmptyBody,
      MetricBody(<<>>),
      MetricBody(<<LttdRecord("K1")>>),
      MetricBody(<<LttdRecord("K1"), LttdRecord("K2")>>),
      MetricBody(<<LttdRecord("K2"), LttdRecord("K1")>>),
      MetricBody(<<LttdRecordNoKey, LttdRecord("K2")>>),
      MetricBody(<<LttdRecord(""), LttdRecord("K1")>>) }

MetricBodies(op) ==
    CASE op = "fetch_release_frequency" -> {EmptyBody, MetricBody(<<RfRecord>>)}
      [] op = "fetch_lttd"              -> LttdBodies
      [] op = "fetch_mttr"              -> {MetricBody(<<MttrRecord>>)}
      [] op = "fetch_cfr"               -> {MetricBody(<<CfrRecord>>)}

\* Every kind of outcome of one GET: a transport failure, a 4xx/5xx status,
\* a 2xx status with a malformed body, a 2xx status with a JSON body.
HttpOutcomes(bodies) ==
    TransportFailures
      \cup {Response(404, Malformed), Response(500, EmptyBody), Response(200, Malformed)}
      \cup {Response(200, b) : b \in bodies}

\* One outcome of each kind: the transport failure and the error status differ
\* from one operation to the next.
OutcomesOfEachKind(failure_cls, error_status, bodies) ==
    {o \in HttpOutcomes(bodies) :
        IF o.kind = "raise" THEN o.exc.cls = failure_cls
        ELSE o.status_code \in {200, error_status}}

\* The outcomes each metric request is answered with.
MetricOutcomes(op) ==
    CASE op = "fetch_release_frequency" ->
            OutcomesOfEachKind("ConnectionError", 500, MetricBodies(op))
      [] op = "fetch_lttd" -> HttpOutcomes(MetricBodies(op))
      [] op = "fetch_mttr" -> OutcomesOfEachKind("Timeout", 404, MetricBodies(op))
      [] op = "fetch_cfr"  -> OutcomesOfEachKind("ConnectionError", 404, MetricBodies(op))

\* Detail records of the full report: the second lacks a column of the first.
ReportDetailRecords ==
    { JDict(<<Entry("id", JStr("CR1")), Entry("lttd_eligible", JBool(TRUE))>>),
      JDict(<<Entry("id", JStr("CR2"))>>) }

\* A response body of the records endpoint.
RecordsBody(rows) == JDict(<<Entry("data", JList(rows))>>)

ReportDetailOutcomes ==
    OutcomesOfEachKind("Timeout", 500,
        {EmptyBody} \cup {RecordsBody(rows) : rows \in SeqsUpTo(ReportDetailRecords, MaxRecords)})

---------------------------------------------------------------------------
(* fetch_all_metrics *)

NoCall == [state |-> "none"]
Sent(request) == [state |-> "sent", request |-> request]
Done(request, outcome, result) ==
    [state |-> "returned", request |-> request, outcome |-> outcome, result |-> result]

\* results = {'parameters': {...}, 'metrics': {}} (lines 356-366)
NewResults(a) ==
    [parameters |-> [from_date |-> a.from_date, to_date |-> a.to_date,
                     teambook_ids |-> a.teambook_ids,
                     teambook_level |-> a.teambook_level,
                     timestamp |-> Timestamp],
     metrics |-> <<>>,
     has_detailed_records |-> FALSE,
     detailed_records |-> <<>>]

EmptyResults == NewResults(FetchArgs)

\* The metric records a metric result carries: result['data']['data'] when the
\* result is a success with a non-empty payload and list, else none.
MetricRows(result) ==
    IF result.status = "success" /\ Truthy(result.data)
    THEN DictGet(result.data.d, "data", JList(<<>>)).xs
    ELSE <<>>

\* record.get('aggKey')
AggKeyOf(metric_record) == DictGet(metric_record.d, "aggKey", JNull)

\* The index of the next metric record at or after `from` whose aggKey is
\* truthy (the loop skips the others), 0 if there is none.
NextKeyIdx(rows, from) ==
    IF \E i \in from..Len(rows) : Truthy(AggKeyOf(rows[i]))
    THEN CHOOSE i \in from..Len(rows) :
            /\ Truthy(AggKeyOf(rows[i]))
            /\ \A j \in from..(i - 1) : ~Truthy(AggKeyOf(rows[j]))
    ELSE 0

\* Which operation runs at each call site of fetch_all_metrics.
FamOp(site) ==
    CASE site = "fam_rf"   -> "fetch_release_frequency"
      [] site = "fam_lttd" -> "fetch_lttd"
      [] site = "fam_mttr" -> "fetch_mttr"
      [] site = "fam_cfr"  -> "fetch_cfr"

FamSites == {"fam_rf", "fam_lttd", "fam_mttr", "fam_cfr"}

FamKey(site) ==
    CASE site = "fam_rf"   -> "release_frequency"
      [] site = "fam_lttd" -> "lttd"
      [] site = "fam_mttr" -> "mttr"
      [] site = "fam_cfr"  -> "cfr"

\* Mutant: the MTTR fetch is left out of the sequence.
FamNext_SkipMttr(site) ==
    CASE site = "fam_rf"   -> "fam_lttd"
      [] site = "fam_lttd" -> "fam_cfr"
      [] site = "fam_mttr" -> "fam_cfr"
      [] site = "fam_cfr"  -> "report"

FamNext(site) ==
    CASE site = "fam_rf"   -> "fam_lttd"
      [] site = "fam_lttd" -> "fam_mttr"
      [] site = "fam_mttr" -> "fam_cfr"
      [] site = "fam_cfr"  -> "report"

\* The request the code is about to issue at its current position.
FamRequest ==
    IF pc \in FamSites
    THEN MetricRequest(FamOp(pc), args, DefaultPage, DefaultSize)
    ELSE RecordsRequest(AggKeyOf(lttd_data[key_idx]).s, DefaultPage, DefaultSize)

\* requests.get is entered: the GET is on the wire.
FamSend ==
    /\ pc \in FamSites \cup {"fam_details"}
    /\ call.state # "sent"
    /\ call' = Sent(FamRequest)
    /\ requests_log' = Append(requests_log, FamRequest)
    /\ UNCHANGED <<pc, exc, results, responses_log, min_lttd_days, lttd_data, key_idx, records,
                   record, lttd_eligible, lttd_days, matched, filtered_records, enriched,
                   fetch_details, files, main_vars>>

\* Lines 396-406 once the four metrics are in: where the run goes next.
AfterMetrics(res) ==
    LET lttd == DictGet(res.metrics, "lttd", NoValue)
        rows == MetricRows(lttd)
    IN  IF fetch_details /\ NextKeyIdx(rows, 1) # 0
        THEN [pc |-> "fam_details", rows |-> rows, idx |-> NextKeyIdx(rows, 1)]
        ELSE [pc |-> "report", rows |-> rows, idx |-> 0]

\* One metric fetch of fetch_all_metrics returns (lines 368-394).
FamMetricReturns ==
    /\ pc \in FamSites
    /\ call.state = "sent"
    /\ \E outcome \in MetricOutcomes(FamOp(pc)) :
        LET r == FetchOp(FamOp(pc), outcome)
            res == [results EXCEPT !.metrics = DictSet(@, FamKey(pc), r.ret),
                                   !.has_detailed_records =
                                        IF pc = "fam_cfr" THEN fetch_details ELSE @]
        IN  /\ call' = Done(call.request, outcome, r)
            /\ responses_log' = Append(responses_log, outcome)
            /\ IF r.exc # NoExc
               THEN /\ exc' = r.exc
                    /\ pc' = "crashed"
                    /\ UNCHANGED <<results, lttd_data, key_idx>>
               ELSE /\ exc' = exc
                    /\ results' = res
                    /\ IF pc = "fam_cfr"
                       THEN /\ pc' = AfterMetrics(res).pc
                            /\ lttd_data' = AfterMetrics(res).rows
                            /\ key_idx' = AfterMetrics(res).idx
                       ELSE /\ pc' = FamNext(pc)
                            /\ UNCHANGED <<lttd_data, key_idx>>
    /\ UNCHANGED <<requests_log, min_lttd_days, records, record, lttd_eligible,
                   lttd_days, matched, filtered_records, enriched, fetch_details, files, main_vars>>

\* The detail fetch of one aggregation key returns (lines 401-406).
FamDetailsReturns ==
    /\ pc = "fam_details"
    /\ call.state = "sent"
    /\ \E outcome \in ReportDetailOutcomes :
        LET r == fetch_lttd_records(outcome)
        IN  /\ call' = Done(call.request, outcome, r)
            /\ responses_log' = Append(responses_log, outcome)
            /\ IF r.exc # NoExc
               THEN /\ exc' = r.exc
                    /\ pc' = "crashed"
                    /\ UNCHANGED <<results, key_idx>>
               ELSE /\ exc' = exc
                    /\ results' = [results EXCEPT !.detailed_records =
                                      DictSet(@, AggKeyOf(lttd_data[key_idx]).s, r.ret)]
                    /\ key_idx' = NextKeyIdx(lttd_data, key_idx + 1)
                    /\ pc' = IF NextKeyIdx(lttd_data, key_idx + 1) # 0
                             THEN "fam_details" ELSE "report"
    /\ UNCHANGED <<requests_log, min_lttd_days, lttd_data, records, record,
                   lttd_eligible, lttd_days, matched, filtered_records, enriched,
                   fetch_details, files, main_vars>>

---------------------------------------------------------------------------
(* generate_csv_report: the rows handed to csv.writer, in order *)

Eq20 == "===================="

\* writer.writerow([...]) of string literals
StrRow(strs) == [i \in 1..Len(strs) |-> JStr(strs[i])]

\* [record.get(f, '') for f in fields]
RecordRow(rec, fields) == [i \in 1..Len(fields) |-> DictGet(rec.d, fields[i], JStr(""))]

\* Mutant: the error row always carries the default text.
ErrorOf_AlwaysDefault(result) == "No data"

\* metrics[name].get('error', 'No data')
ErrorOf(result) == IF "error" \in DOMAIN result THEN result.error ELSE "No data"

\* One metric section: the title, a blank row, then either the column header
\* and one row per metric record, or nothing (an empty record list), or the
\* 'Error:' row; then a blank row.
MetricSection(title, result, headers, fields) ==
    << StrRow(<<Eq20 \o title \o Eq20>>), <<>> >>
      \o (IF result.status = "success" /\ Truthy(result.data)
          THEN LET rows == DictGet(result.data.d, "data", JList(<<>>)).xs
               IN  IF rows # <<>>
                   THEN <<StrRow(headers)>>
                          \o [i \in 1..Len(rows) |-> RecordRow(rows[i], fields)]
                   ELSE <<>>
          ELSE << <<JStr("Error:"), JStr(ErrorOf(result))>> >>)
      \o << <<>> >>

ReleaseFrequencySection(result) ==
    MetricSection(" RELEASE FREQUENCY ", result,
        <<"Year-Month", "Releases", "Software Releases %", "PDPTPPY (Calendar)",
          "PDPTPPY (Headcount)", "Head Count", "IT Head Count", "Pods Count",
          "L1 Teambook", "L2 Teambook", "L3 Teambook">>,
        <<"yearMonth", "releases", "percent_software_releases", "pdptppy_calendar_days",
          "pdptppy_full_headcount_basis", "head_count", "it_head_count", "pods_count",
          "l1_teambook", "l2_teambook", "l3_teambook">>)

LttdSection(result) ==
    MetricSection(" LEAD TIME TO DEPLOY (LTTD) ", result,
        <<"Year-Month", "LTTD (days)", "Highest LTTD", "CRs with LTTD",
          "Eligible CRs", "CRs with LTTD %", "Pods with CRs", "Pods with LTTD",
          "Pods with LTTD < Week", "Pods with LTTD < Week %",
          "L1 Teambook", "L2 Teambook", "L3 Teambook", "Agg Key">>,
        <<"yearMonth", "lttd", "highest_lttd", "crs_with_lttd", "eligible_crs",
          "percent_crs_with_lttd", "pods_with_crs", "pods_with_lttd",
          "pods_with_lttd_less_than_week", "percent_pods_with_lttd_less_than_week",
          "l1_teambook", "l2_teambook", "l3_teambook", "aggKey">>)

MttrSection(result) ==
    MetricSection(" MEAN TIME TO RECOVERY (MTTR) ", result,
        <<"Year-Month", "MTTR (hours)", "MTTR CHM (hours)", "Incidents Count",
          "Incidents Count CHM", "Non-Incidents %",
          "L1 Teambook", "L2 Teambook", "L3 Teambook", "Agg Key">>,
        <<"yearMonth", "mttr", "mttr_chm", "incidents_count", "incidents_count_chm",
          "non_incidents_percent", "l1_teambook", "l2_teambook", "l3_teambook", "aggKey">>)

CfrSection(result) ==
    MetricSection(" CHANGE FAILURE RATE (CFR) ", result,
        <<"Year-Month", "Change Failure Rate %", "Change Causing Incident %",
          "Change with Business Impact %", "Releases", "Change Failed",
          "Change Causing Incident", "Change with Business Impact",
          "Pods Count", "Pod IT HC",
          "L1 Teambook", "L2 Teambook", "L3 Teambook", "Agg Key">>,
        <<"yearMonth", "change_failure_rate", "percent_change_causing_incident",
          "percent_change_with_business_impact", "releases", "change_failed",
          "change_causing_incident", "change_with_business_impact",
          "num_of_pods_current_month", "pod_it_hc_current_month",
          "l1_teambook", "l2_teambook", "l3_teambook", "aggKey">>)

\* Mutant: the columns are taken from the last record of the key.
DetailKeyRows_HeadersFromLast(agg_key, details) ==
    << StrRow(<<"Aggregation Key: " \o agg_key>>) >>
      \o (IF details.status = "success" /\ Truthy(details.data)
          THEN LET detail_data == DictGet(details.data.d, "data", JList(<<>>)).xs
               IN  IF detail_data # <<>>
                   THEN LET headers == DictKeys(detail_data[Len(detail_data)].d)
                        IN  <<StrRow(headers)>>
                              \o [i \in 1..Len(detail_data) |->
                                    RecordRow(detail_data[i], headers)]
                   ELSE <<>>
          ELSE <<>>)
      \o << <<>> >>

\* The rows of one aggregation key in the detailed-records section.
DetailKeyRows(agg_key, details) ==
    << StrRow(<<"Aggregation Key: " \o agg_key>>) >>
      \o (IF details.status = "success" /\ Truthy(details.data)
          THEN LET detail_data == DictGet(details.data.d, "data", JList(<<>>)).xs
               IN  IF detail_data # <<>>
                   THEN LET headers == DictKeys(detail_data[1].d)
                        IN  <<StrRow(headers)>>
                              \o [i \in 1..Len(detail_data) |->
                                    RecordRow(detail_data[i], headers)]
                   ELSE <<>>
          ELSE <<>>)
      \o << <<>> >>

RECURSIVE DetailRows(_)
\* for agg_key, details in data['detailed_records'].items()
DetailRows(detailed_records) ==
    IF detailed_records = <<>> THEN <<>>
    ELSE DetailKeyRows(Head(detailed_records).k, Head(detailed_records).v)
           \o DetailRows(Tail(detailed_records))

DetailedSection(data) ==
    IF data.has_detailed_records /\ data.detailed_records # <<>>
    THEN << StrRow(<<Eq20 \o " DETAILED LTTD RECORDS " \o Eq20>>), <<>> >>
           \o DetailRows(data.detailed_records)
    ELSE <<>>

ReportHeader(data) ==
    << StrRow(<<"DORA METRICS REPORT">>),
       StrRow(<<"Generated:", data.parameters.timestamp>>),
       StrRow(<<"Period:", data.parameters.from_date \o " to " \o data.parameters.to_date>>),
       StrRow(<<"Teambook IDs:", data.parameters.teambook_ids>>),
       <<JStr("Teambook Level:"), JNum(data.parameters.teambook_level)>>,
       <<>> >>

\* Everything generate_csv_report writes to output_file.
CsvReportRows(data) ==
    ReportHeader(data)
      \o ReleaseFrequencySection(DictGet(data.metrics, "release_frequency", NoValue))
      \o LttdSection(DictGet(data.metrics, "lttd", NoValue))
      \o MttrSection(DictGet(data.metrics, "mttr", NoValue))
      \o CfrSection(DictGet(data.metrics, "cfr", NoValue))
      \o DetailedSection(data)

\* main(), lines 838: fetcher.generate_csv_report(results, output_file)
generate_csv_report ==
    /\ pc = "report"
    /\ files' = DictSet(files, OutputFile, CsvReportRows(results))
    /\ pc' = "done"
    /\ UNCHANGED <<call, exc, results, requests_log, responses_log, min_lttd_days, lttd_data,
                   key_idx,
                   records, record, lttd_eligible, lttd_days, matched,
                   filtered_records, enriched, fetch_details, main_vars>>

InitFull ==
    /\ pc = "fam_rf"
    /\ call = NoCall
    /\ exc = NoExc
    /\ results = EmptyResults
    /\ requests_log = <<>>
    /\ responses_log = <<>>
    /\ min_lttd_days = 0
    /\ lttd_data = <<>>
    /\ key_idx = 0
    /\ records = <<>>
    /\ record = JNull
    /\ lttd_eligible = JNull
    /\ lttd_days = 0
    /\ matched = FALSE
    /\ filtered_records = <<>>
    /\ enriched = JNull
    /\ fetch_details \in BOOLEAN
    /\ files = <<>>
    /\ base_url = BaseUrl
    /\ bearer_token = BearerToken
    /\ args = FetchArgs
    /\ level_answer = "3"
    /\ report_type = "1"
    /\ confirm = "y"

NextFull == FamSend \/ FamMetricReturns \/ FamDetailsReturns \/ generate_csv_report

\* A full-report run: fetch_all_metrics, then generate_csv_report.
SpecFull == InitFull /\ [][NextFull]_vars

---------------------------------------------------------------------------
(* Claims checked on a full-report run (SpecFull) *)

FetchOps ==
    {"fetch_release_frequency", "fetch_lttd", "fetch_mttr", "fetch_cfr", "fetch_lttd_records"}

\* The HTTP call succeeded: a 2xx response whose body parses as JSON.
HttpSucceeded(outcome) ==
    /\ outcome.kind = "response"
    /\ outcome.status_code \in 200..299
    /\ outcome.body # Malformed

\* C1: each of the five fetch operations returns a tagged result (status
\* success or error) and lets no exception reach its caller, whatever the
\* outcome of the HTTP call: a transport failure, a non-2xx status, or a 2xx
\* response whose body is not parseable as JSON.
C1_FetchNeverRaises ==
    /\ exc = NoExc
    /\ pc # "crashed"
    /\ call.state = "returned" =>
        /\ call.request.op \in FetchOps
        /\ call.result.exc = NoExc
        /\ call.result.ret.status \in {"success", "error"}
        /\ ~HttpSucceeded(call.outcome) => call.result.ret.status = "error"

\* C1 witness: the detail fetch has returned from a 2xx response with a
\* malformed body, after the four metric fetches were called, one of which met
\* a transport failure and one a non-2xx status.
C1_Witness ==
    /\ call.state = "returned"
    /\ call.request.op = "fetch_lttd_records"
    /\ call.outcome = Response(200, Malformed)
    /\ call.result.ret.status = "error"
    /\ {requests_log[i].op : i \in 1..Len(requests_log)} = FetchOps
    /\ DictGet(results.metrics, "release_frequency", NoValue).status = "error"
    /\ DictGet(results.metrics, "release_frequency", NoValue).error = "Max retries exceeded"
    /\ DictGet(results.metrics, "cfr", NoValue).status = "error"
    /\ DictGet(results.metrics, "cfr", NoValue).error = "404 Client Error"

\* The display name of each metric kind, as fetch_all_metrics announces it
\* (lines 368, 375, 382, 389).
DisplayName(op) ==
    CASE op = "fetch_release_frequency" -> "Release Frequency"
      [] op = "fetch_lttd"              -> "Lead Time to Deploy (LTTD)"
      [] op = "fetch_mttr"              -> "Mean Time to Recovery (MTTR)"
      [] op = "fetch_cfr"               -> "Change Failure Rate (CFR)"

\* C2: for each of the four metric kinds, a successful HTTP call yields
\* status = success with the parsed body as payload, a failing call yields
\* status = error with a non-empty error message and a null payload, and the
\* metric name is the kind's display name in both cases.
C2_MetricResultShape ==
    (call.state = "returned" /\ call.request.op # "fetch_lttd_records") =>
        LET r == call.result.ret
        IN  /\ call.result.exc = NoExc
            /\ r.metric = DisplayName(call.request.op)
            /\ IF HttpSucceeded(call.outcome)
               THEN /\ r.status = "success"
                    /\ r.data = call.outcome.body
                    /\ DOMAIN r = {"metric", "status", "data"}
               ELSE /\ r.status = "error"
                    /\ r.error # ""
                    /\ r.data = JNull

\* C2 witness: all four metric kinds have returned, at least one successfully
\* with a non-empty body and at least one with an error.
C2_Witness ==
    /\ call.state = "returned"
    /\ call.request.op = "fetch_cfr"
    /\ HttpSucceeded(call.outcome)
    /\ call.result.ret.data = MetricBody(<<CfrRecord>>)
    /\ Len(results.metrics) = 4
    /\ DictGet(results.metrics, "mttr", NoValue).status = "error"
    /\ DictGet(results.metrics, "lttd", NoValue).status = "success"
    /\ DictGet(results.metrics, "release_frequency", NoValue).status = "error"

\* The report file, as rows.
ReportRows == DictGet(files, OutputFile, <<>>)

SectionTitle ==
    << <<JStr("==================== RELEASE FREQUENCY ====================")>>,
       <<JStr("==================== LEAD TIME TO DEPLOY (LTTD) ====================")>>,
       <<JStr("==================== MEAN TIME TO RECOVERY (MTTR) ====================")>>,
       <<JStr("==================== CHANGE FAILURE RATE (CFR) ====================")>>,
       <<JStr("==================== DETAILED LTTD RECORDS ====================")>> >>

SectionKey == <<"release_frequency", "lttd", "mttr", "cfr">>

\* Where in `rows` the title of section k stands.
TitleRows(rows, k) == {i \in 1..Len(rows) : rows[i] = SectionTitle[k]}

\* C7: in the report, the section of a metric whose result has status = error
\* is its title followed (after the blank row) by one 'Error:' row carrying
\* the captured message and no column-header or data rows; the report is
\* written although the payload is null; and the other sections are there
\* with their own title, header and one row per metric record.  A section
\* runs from its title to the next section's title, or to the end of the file.
C7_ErrorSection ==
    pc = "done" =>
        LET rows == ReportRows
            at == [k \in 1..5 |-> TitleRows(rows, k)]
            start == [k \in 1..5 |-> IF at[k] = {} THEN Len(rows) + 1
                                     ELSE CHOOSE i \in at[k] : TRUE]
        IN  /\ HasKey(files, OutputFile)
            /\ \A k \in 1..4 :
                LET res == DictGet(results.metrics, SectionKey[k], NoValue)
                    recs == MetricRows(res)
                IN  /\ Cardinality(at[k]) = 1
                    /\ res.status = "error" =>
                        /\ res.data = JNull
                        /\ SubSeq(rows, start[k], start[k + 1] - 1) =
                              << SectionTitle[k], <<>>,
                                 <<JStr("Error:"), JStr(res.error)>>, <<>> >>
                    /\ (res.status = "success" /\ recs # <<>>) =>
                        /\ start[k + 1] - start[k] = Len(recs) + 4
                        /\ rows[start[k] + 2][1] = JStr("Year-Month")
                        /\ \A i \in 1..Len(recs) :
                              rows[start[k] + 2 + i][1] =
                                  DictGet(recs[i].d, "yearMonth", JStr(""))

\* C7 witness: a written report in which the lead-time fetch met HTTP 500 and
\* so has an error section, between a release-frequency and an MTTR section
\* that carry data.
C7_Witness ==
    /\ pc = "done"
    /\ DictGet(results.metrics, "lttd", NoValue).status = "error"
    /\ DictGet(results.metrics, "lttd", NoValue).error = "500 Server Error"
    /\ <<JStr("Error:"), JStr("500 Server Error")>> \in {ReportRows[i] : i \in 1..Len(ReportRows)}
    /\ MetricRows(DictGet(results.metrics, "release_frequency", NoValue)) # <<>>
    /\ MetricRows(DictGet(results.metrics, "mttr", NoValue)) # <<>>

---------------------------------------------------------------------------
(* _enrich_lttd_record *)

\* str(v) as an f-string formats a field value (string values only)
FormatValue(v) == CASE v.t = "str" -> v.s

\* Mutant: the host test is made on repo_link as it is, without lower().
HostIn_CaseSensitive(host, repo_link) == StrContains(host, repo_link.s)

\* 'github' in repo_link.lower()
HostIn(host, repo_link) == StrContains(host, StrLower(repo_link.s))

\* Lines 316-327: the two URLs when repo_link and commit_id are both truthy.
DerivedUrls(repo_link, commit_id) ==
    LET repo == FormatValue(repo_link)
        commit == FormatValue(commit_id)
    IN  IF HostIn("github", repo_link)
        THEN [commits_url |-> repo \o "/commit/" \o commit,
              source_code_diff_url |-> repo \o "/commit/" \o commit \o ".diff"]
        ELSE IF HostIn("gitlab", repo_link)
        THEN [commits_url |-> repo \o "/-/commit/" \o commit,
              source_code_diff_url |-> repo \o "/-/commit/" \o commit \o ".diff"]
        ELSE IF HostIn("bitbucket", repo_link)
        THEN [commits_url |-> repo \o "/commits/" \o commit,
              source_code_diff_url |-> repo \o "/diff/" \o commit]
        ELSE [commits_url |-> IF Truthy(commit_id) THEN repo \o "/commit/" \o commit ELSE "",
              source_code_diff_url |->
                  IF Truthy(commit_id) THEN repo \o "/diff/" \o commit ELSE ""]

\* Mutant: the diff URL is built on the commits_url the record already
\* carries, when it carries one.
_enrich_lttd_record_DiffFromExisting(rec) ==
    LET repo_link == DictGet(rec.d, "repo_link", JStr(""))
        commit_id == DictGet(rec.d, "commit_id", JStr(""))
        urls == IF Truthy(repo_link) /\ Truthy(commit_id)
                THEN DerivedUrls(repo_link, commit_id)
                ELSE [commits_url |-> "", source_code_diff_url |-> ""]
        base == DictGet(rec.d, "commits_url", JStr(urls.commits_url))
    IN  JDict(DictSet(DictSet(rec.d, "commits_url", JStr(urls.commits_url)),
                      "source_code_diff_url",
                      IF Truthy(repo_link) /\ Truthy(commit_id)
                      THEN JStr(FormatValue(base) \o ".diff")
                      ELSE JStr("")))

\* Mutant: the result starts from an empty dict instead of record.copy().
_enrich_lttd_record_NoCopy(rec) ==
    LET repo_link == DictGet(rec.d, "repo_link", JStr(""))
        commit_id == DictGet(rec.d, "commit_id", JStr(""))
        urls == IF Truthy(repo_link) /\ Truthy(commit_id)
                THEN DerivedUrls(repo_link, commit_id)
                ELSE [commits_url |-> "", source_code_diff_url |-> ""]
    IN  JDict(<<Entry("commits_url", JStr(urls.commits_url)),
                Entry("source_code_diff_url", JStr(urls.source_code_diff_url))>>)

\* _enrich_lttd_record(record): a copy of the record with commits_url and
\* source_code_diff_url set.
_enrich_lttd_record(rec) ==
    LET repo_link == DictGet(rec.d, "repo_link", JStr(""))
        commit_id == DictGet(rec.d, "commit_id", JStr(""))
        urls == IF Truthy(repo_link) /\ Truthy(commit_id)
                THEN DerivedUrls(repo_link, commit_id)
                ELSE [commits_url |-> "", source_code_diff_url |-> ""]
    IN  JDict(DictSet(DictSet(rec.d, "commits_url", JStr(urls.commits_url)),
                      "source_code_diff_url", JStr(urls.source_code_diff_url)))

\* A dict of the entries whose value is given: Absent stands for a missing key.
Absent == [t |-> "absent"]
RECURSIVE DictOf(_)
DictOf(entries) ==
    IF entries = <<>> THEN <<>>
    ELSE IF Head(entries).v = Absent THEN DictOf(Tail(entries))
    ELSE <<Head(entries)>> \o DictOf(Tail(entries))

\* repo_link values: absent, null, empty, and hosts in either case, two of them
\* naming a second host in their path.
RepoLinks ==
    { Absent, JNull, JStr(""),
      JStr("https://github.com/org/repo"),
      JStr("https://GitHub.example.com/org/repo"),
      JStr("https://gitlab.com/github-mirror/repo"),
      JStr("https://gitlab.com/org/repo"),
      JStr("https://BITBUCKET.org/gitlab/repo"),
      JStr("https://bitbucket.org/org/repo"),
      JStr("https://git.example.com/org/repo") }

CommitIds == {Absent, JNull, JStr(""), JStr("abc123")}

\* A commits_url / source_code_diff_url the record may already carry.
StaleUrls == {Absent, JStr("https://old.example.com/commit/0")}

EnrichInputs ==
    { JDict(DictOf(<<Entry("id", JStr("CR1")), Entry("commits_url", cu),
                     Entry("repo_link", rl), Entry("commit_id", ci),
                     Entry("source_code_diff_url", du)>>)) :
        rl \in RepoLinks, ci \in CommitIds, cu \in StaleUrls, du \in StaleUrls }

\* enriched = self._enrich_lttd_record(record)
Enrich ==
    /\ pc = "enrich"
    /\ enriched' = _enrich_lttd_record(record)
    /\ pc' = "enriched"
    /\ UNCHANGED <<call, exc, results, requests_log, responses_log, min_lttd_days, lttd_data,
                   key_idx, records, record, lttd_eligible, lttd_days, matched,
                   filtered_records, fetch_details, files, main_vars>>

\* The enriched record is enriched again.
EnrichAgain ==
    /\ pc = "enriched"
    /\ record' = enriched
    /\ enriched' = _enrich_lttd_record(enriched)
    /\ pc' = "enriched_twice"
    /\ UNCHANGED <<call, exc, results, requests_log, responses_log, min_lttd_days, lttd_data,
                   key_idx, records, lttd_eligible, lttd_days, matched,
                   filtered_records, fetch_details, files, main_vars>>

InitEnrich ==
    /\ pc = "enrich"
    /\ call = NoCall
    /\ exc = NoExc
    /\ results = EmptyResults
    /\ requests_log = <<>>
    /\ responses_log = <<>>
    /\ min_lttd_days = 0
    /\ lttd_data = <<>>
    /\ key_idx = 0
    /\ records = <<>>
    /\ record \in EnrichInputs
    /\ lttd_eligible = JNull
    /\ lttd_days = 0
    /\ matched = FALSE
    /\ filtered_records = <<>>
    /\ enriched = JNull
    /\ fetch_details = FALSE
    /\ files = <<>>
    /\ base_url = BaseUrl
    /\ bearer_token = BearerToken
    /\ args = FetchArgs
    /\ level_answer = "3"
    /\ report_type = "2"
    /\ confirm = "y"

NextEnrich == Enrich \/ EnrichAgain

\* _enrich_lttd_record applied to a record, and to its own result.
SpecEnrich == InitEnrich /\ [][NextEnrich]_vars

---------------------------------------------------------------------------
(* The filter loop of fetch_filtered_lttd_records (lines 277-294) *)

\* min_lttd_days: int = 15
DefaultMinLttdDays == 15

\* float(v) on the values a JSON field can hold: the number, or the reason it
\* fails.  A string is stripped, then read as an optionally signed run of
\* decimal digits (the numerals the inputs below carry: none has a fraction,
\* an exponent, or spells inf or nan); bool is a subclass of int.
ToFloat(v) ==
    CASE v.t = "num"  -> [ok |-> TRUE, n |-> v.n]
      [] v.t = "bool" -> [ok |-> TRUE, n |-> IF v.b THEN 1 ELSE 0]
      [] v.t = "str"  ->
            LET body == StrStrip(v.s)
                signed == Len(body) > 0 /\ SubSeq(body, 1, 1) \in {"+", "-"}
                digits == IF signed THEN SubSeq(body, 2, Len(body)) ELSE body
            IN  IF AllDigits(digits)
                THEN [ok |-> TRUE,
                      n |-> IF signed /\ SubSeq(body, 1, 1) = "-"
                            THEN 0 - DigitsValue(digits) ELSE DigitsValue(digits)]
                ELSE [ok |-> FALSE, error |-> "ValueError"]
      [] OTHER -> [ok |-> FALSE, error |-> "TypeError"]

\* Lines 279-289: the lead-time value compared with the threshold.
CoerceDays(rec) ==
    LET first == DictGet(rec.d, "lead_time_to_deploy_numeric_days", JNull)
        raw == IF first = JNull
               THEN DictGet(rec.d, "lead_time_to_deploy_days", JNull)
               ELSE first
    IN  IF raw = JNull THEN 0
        ELSE IF ToFloat(raw).ok THEN ToFloat(raw).n
        ELSE 0

\* record.get('lttd_eligible', False)
EligibleOf(rec) == DictGet(rec.d, "lttd_eligible", JBool(FALSE))

\* Mutant: the two conditions are joined by `or`.
Retained_Or(rec, threshold) ==
    Truthy(DictGet(rec.d, "lttd_eligible", JBool(FALSE))) \/ CoerceDays(rec) > threshold

\* Line 291: lttd_eligible and lttd_days > min_lttd_days
Retained(rec, threshold) ==
    Truthy(EligibleOf(rec)) /\ CoerceDays(rec) > threshold

RECURSIVE FilterRecords(_, _)
\* The loop of lines 277-294 over one detail response: the enrichment of each
\* retained record, in the order of the response.
FilterRecords(recs, threshold) ==
    IF recs = <<>> THEN <<>>
    ELSE (IF Retained(Head(recs), threshold)
          THEN <<_enrich_lttd_record(Head(recs))>> ELSE <<>>)
            \o FilterRecords(Tail(recs), threshold)

EligibleValues ==
    {Absent, JNull, JBool(TRUE), JBool(FALSE), JStr("false"), JStr("")}

NumericDaysValues ==
    {Absent, JNull, JNum(20), JNum(15), JNum(0), JStr("20"), JStr("15"), JStr(" 16 "),
     JStr("-3"), JStr("abc"), JStr(""), JList(<<>>)}

DaysValues == {Absent, JNum(20), JStr("30"), JStr("N/A")}

FilterInputs ==
    { JDict(DictOf(<<Entry("id", JStr("CR1")), Entry("lttd_eligible", el),
                     Entry("lead_time_to_deploy_days", d2),
                     Entry("lead_time_to_deploy_numeric_days", d1),
                     Entry("repo_link", JStr("https://github.com/org/repo")),
                     Entry("commit_id", JStr("abc123"))>>)) :
        el \in EligibleValues, d1 \in NumericDaysValues, d2 \in DaysValues }

Thresholds == {-1, 0, 1, DefaultMinLttdDays, 20}

\* One iteration of the loop over `records` (lines 278-294).
FilterRecord ==
    /\ pc = "filter"
    /\ lttd_eligible' = EligibleOf(record)
    /\ lttd_days' = CoerceDays(record)
    /\ matched' = Retained(record, min_lttd_days)
    /\ filtered_records' = filtered_records \o FilterRecords(<<record>>, min_lttd_days)
    /\ enriched' = IF Retained(record, min_lttd_days)
                   THEN _enrich_lttd_record(record) ELSE enriched
    /\ pc' = "filtered"
    /\ UNCHANGED <<call, exc, results, requests_log, responses_log, min_lttd_days, lttd_data,
                   key_idx, records, record, fetch_details, files, main_vars>>

InitFilter ==
    /\ pc = "filter"
    /\ call = NoCall
    /\ exc = NoExc
    /\ results = EmptyResults
    /\ requests_log = <<>>
    /\ responses_log = <<>>
    /\ min_lttd_days \in Thresholds
    /\ lttd_data = <<>>
    /\ key_idx = 0
    /\ record \in FilterInputs
    /\ records = <<record>>
    /\ lttd_eligible = JNull
    /\ lttd_days = 0
    /\ matched = FALSE
    /\ filtered_records = <<>>
    /\ enriched = JNull
    /\ fetch_details = FALSE
    /\ files = <<>>
    /\ base_url = BaseUrl
    /\ bearer_token = BearerToken
    /\ args = FetchArgs
    /\ level_answer = "3"
    /\ report_type = "2"
    /\ confirm = "y"

NextFilter == FilterRecord

\* The filter loop body applied to one detail record.
SpecFilter == InitFilter /\ [][NextFilter]_vars

---------------------------------------------------------------------------
(* fetch_filtered_lttd_records and generate_filtered_lttd_csv, as main() runs
   them for report type 2 (lines 791-799) *)

\* The detail records the records endpoint answers with in a filtered run: two
\* that pass the default threshold, one below it, and one whose eligibility
\* is the string "false".
DetailRecord(id, eligible, days, repo_link) ==
    JDict(<<Entry("id", JStr(id)), Entry("lttd_eligible", eligible),
            Entry("lead_time_to_deploy_numeric_days", days),
            Entry("repo_link", JStr(repo_link)), Entry("commit_id", JStr("abc123"))>>)

FilteredDetailRecords ==
    { DetailRecord("CR1", JBool(TRUE), JStr("20"), "https://github.com/org/repo"),
      DetailRecord("CR2", JBool(TRUE), JNum(30), "https://gitlab.com/org/repo"),
      DetailRecord("CR3", JBool(TRUE), JStr("10"), "https://github.com/org/repo"),
      DetailRecord("CR4", JStr("false"), JNum(20), "https://bitbucket.org/org/repo") }

FilteredDetailOutcomes ==
    OutcomesOfEachKind("ConnectionError", 500,
        {EmptyBody} \cup {RecordsBody(rows) : rows \in SeqsUpTo(FilteredDetailRecords, MaxRecords)})

\* Mutant: the detail fetch is called without size=100.
FflRequest_DefaultSize ==
    IF pc = "ffl_lttd"
    THEN MetricRequest("fetch_lttd", args, DefaultPage, DefaultSize)
    ELSE RecordsRequest(AggKeyOf(lttd_data[key_idx]).s, DefaultPage, DefaultSize)

FflRequest ==
    IF pc = "ffl_lttd"
    THEN MetricRequest("fetch_lttd", args, DefaultPage, DefaultSize)
    ELSE RecordsRequest(AggKeyOf(lttd_data[key_idx]).s, DefaultPage, FilteredDetailSize)

\* Mutant: the next GET is issued while the last one is still on the wire.
FflSend_NoWait ==
    /\ pc \in {"ffl_lttd", "ffl_details"}
    /\ call' = Sent(FflRequest)
    /\ requests_log' = Append(requests_log, FflRequest)
    /\ UNCHANGED <<pc, exc, results, responses_log, min_lttd_days, lttd_data, key_idx, records,
                   record, lttd_eligible, lttd_days, matched, filtered_records, enriched,
                   fetch_details, files, main_vars>>

\* requests.get is entered: the GET is on the wire.
FflSend ==
    /\ pc \in {"ffl_lttd", "ffl_details"}
    /\ call.state # "sent"
    /\ call' = Sent(FflRequest)
    /\ requests_log' = Append(requests_log, FflRequest)
    /\ UNCHANGED <<pc, exc, results, responses_log, min_lttd_days, lttd_data, key_idx, records,
                   record, lttd_eligible, lttd_days, matched, filtered_records, enriched,
                   fetch_details, files, main_vars>>

\* fetch_lttd returns (lines 255-262), and the loop runs to its first key.
FflLttdReturns ==
    /\ pc = "ffl_lttd"
    /\ call.state = "sent"
    /\ \E outcome \in HttpOutcomes(LttdBodies) :
        LET r == fetch_lttd(outcome)
            rows == DictGet(r.ret.data.d, "data", JList(<<>>)).xs
        IN  /\ call' = Done(call.request, outcome, r)
            /\ responses_log' = Append(responses_log, outcome)
            /\ IF r.exc # NoExc
               THEN /\ exc' = r.exc
                    /\ pc' = "crashed"
                    /\ UNCHANGED <<lttd_data, key_idx>>
               ELSE IF r.ret.status # "success" \/ ~Truthy(r.ret.data)
               THEN /\ pc' = "filtered_csv"
                    /\ UNCHANGED <<exc, lttd_data, key_idx>>
               ELSE /\ lttd_data' = rows
                    /\ key_idx' = NextKeyIdx(rows, 1)
                    /\ pc' = IF NextKeyIdx(rows, 1) # 0 THEN "ffl_details" ELSE "filtered_csv"
                    /\ exc' = exc
    /\ filtered_records' = <<>>
    /\ UNCHANGED <<results, requests_log, min_lttd_days, records, record, lttd_eligible,
                   lttd_days, matched, enriched, fetch_details, files, main_vars>>

\* filtered_records.append(enriched_record), for every record retained
Accumulate(acc, kept) == acc \o kept

\* Mutant: a failed or empty detail fetch ends the loop over the keys.
FflDetailsReturns_StopOnFailure ==
    /\ pc = "ffl_details"
    /\ call.state = "sent"
    /\ \E outcome \in FilteredDetailOutcomes :
        LET r == fetch_lttd_records(outcome)
            recs == DictGet(r.ret.data.d, "data", JList(<<>>)).xs
        IN  /\ call' = Done(call.request, outcome, r)
            /\ responses_log' = Append(responses_log, outcome)
            /\ IF r.exc # NoExc
               THEN /\ exc' = r.exc
                    /\ pc' = "crashed"
                    /\ UNCHANGED <<key_idx, records, filtered_records>>
               ELSE IF r.ret.status # "success" \/ ~Truthy(r.ret.data)
               THEN /\ exc' = exc
                    /\ pc' = "filtered_csv"
                    /\ UNCHANGED <<key_idx, records, filtered_records>>
               ELSE /\ exc' = exc
                    /\ key_idx' = NextKeyIdx(lttd_data, key_idx + 1)
                    /\ pc' = IF NextKeyIdx(lttd_data, key_idx + 1) # 0
                             THEN "ffl_details" ELSE "filtered_csv"
                    /\ records' = recs
                    /\ filtered_records' =
                          Accumulate(filtered_records, FilterRecords(recs, min_lttd_days))
    /\ UNCHANGED <<results, requests_log, min_lttd_days, lttd_data, record, lttd_eligible,
                   lttd_days, matched, enriched, fetch_details, files, main_vars>>

\* fetch_lttd_records returns for the current key (lines 270-294), and the
\* loop runs to its next key or to the return.
FflDetailsReturns ==
    /\ pc = "ffl_details"
    /\ call.state = "sent"
    /\ \E outcome \in FilteredDetailOutcomes :
        LET r == fetch_lttd_records(outcome)
            recs == DictGet(r.ret.data.d, "data", JList(<<>>)).xs
        IN  /\ call' = Done(call.request, outcome, r)
            /\ responses_log' = Append(responses_log, outcome)
            /\ IF r.exc # NoExc
               THEN /\ exc' = r.exc
                    /\ pc' = "crashed"
                    /\ UNCHANGED <<key_idx, records, filtered_records>>
               ELSE /\ exc' = exc
                    /\ key_idx' = NextKeyIdx(lttd_data, key_idx + 1)
                    /\ pc' = IF NextKeyIdx(lttd_data, key_idx + 1) # 0
                             THEN "ffl_details" ELSE "filtered_csv"
                    /\ IF r.ret.status # "success" \/ ~Truthy(r.ret.data)
                       THEN UNCHANGED <<records, filtered_records>>
                       ELSE /\ records' = recs
                            /\ filtered_records' =
                                  Accumulate(filtered_records,
                                             FilterRecords(recs, min_lttd_days))
    /\ UNCHANGED <<results, requests_log, min_lttd_days, lttd_data, record, lttd_eligible,
                   lttd_days, matched, enriched, fetch_details, files, main_vars>>

\* Mutant: the header lacks its last column.
FilteredHeaders_OneShort ==
    <<"ID", "Month", "Year", "Assignment Group", "Change Type", "Change Sub Type",
      "Category", "Close Code", "Sub Close Code", "Business Impact",
      "L1 Business Unit", "L2 Business Unit", "L3 Business Unit", "L4 Business Unit",
      "L5 Business Unit", "L6 Business Unit", "Start Date", "End Date", "Closed At",
      "State", "Requested By", "Requested By Employee ID", "Business Service",
      "Short Description", "SN URL", "With LTTD", "CR Processing Hurdle",
      "Lead Time to Deploy Days", "Lead Time to Deploy Numeric Days", "LTTD Eligible",
      "LTTD Eligibility Exclusion Reason", "CR First Commit URL", "CR First Commit Time",
      "Source Code Diff URL", "Accessible", "Associated Diff Types",
      "Diff URL Call Successful", "ICE CR Link", "Code Successfully in Production Type",
      "Actual End Date Time", "Repo Fetch Attempted On", "Repo Link", "Request Type",
      "Commits URL Call", "Version", "Requestor Country", "Commits URL (Generated)">>

\* headers (lines 590-639)
FilteredHeaders ==
    <<"ID", "Month", "Year", "Assignment Group", "Change Type", "Change Sub Type",
      "Category", "Close Code", "Sub Close Code", "Business Impact",
      "L1 Business Unit", "L2 Business Unit", "L3 Business Unit", "L4 Business Unit",
      "L5 Business Unit", "L6 Business Unit", "Start Date", "End Date", "Closed At",
      "State", "Requested By", "Requested By Employee ID", "Business Service",
      "Short Description", "SN URL", "With LTTD", "CR Processing Hurdle",
      "Lead Time to Deploy Days", "Lead Time to Deploy Numeric Days", "LTTD Eligible",
      "LTTD Eligibility Exclusion Reason", "CR First Commit URL", "CR First Commit Time",
      "Source Code Diff URL", "Accessible", "Associated Diff Types",
      "Diff URL Call Successful", "ICE CR Link", "Code Successfully in Production Type",
      "Actual End Date Time", "Repo Fetch Attempted On", "Repo Link", "Request Type",
      "Commits URL Call", "Version", "Requestor Country", "Commits URL (Generated)",
      "Source Code Diff URL (Generated)">>

\* The fields of one data row (lines 643-692)
FilteredFields ==
    <<"id", "month", "year", "assignment_group", "change_type", "change_sub_type",
      "category", "close_code", "sub_close_code", "business_impact",
      "l1_business_unit", "l2_business_unit", "l3_business_unit", "l4_business_unit",
      "l5_business_unit", "l6_business_unit", "start_date", "end_date", "closed_at",
      "state", "requested_by", "requested_by_employee_id", "business_service",
      "short_description", "sn_url", "with_lttd", "cr_processing_hurdle",
      "lead_time_to_deploy_days", "lead_time_to_deploy_numeric_days", "lttd_eligible",
      "lttd_eligibility_exclusion_reason", "cr_first_commit_url", "cr_first_commit_time",
      "source_code_diff_URL", "accessible", "associated_diff_types",
      "diff_url_call_successful", "ice_cr_link", "code_successfully_in_production_type",
      "actual_end_date_time", "repo_fetch_attempted_on", "repo_link", "request_type",
      "commits_url_call", "version", "requestor_country", "commits_url",
      "source_code_diff_url">>

\* Everything generate_filtered_lttd_csv writes to output_file (lines 585-692).
FilteredCsvRows(recs) ==
    << StrRow(<<"HIGH LTTD RECORDS REPORT - LTTD > 15 Days (Eligible Only)">>),
       StrRow(<<"Generated:", Timestamp>>),
       <<JStr("Total Records:"), JNum(Len(recs))>>,
       <<>>,
       StrRow(FilteredHeaders) >>
      \o [i \in 1..Len(recs) |-> RecordRow(recs[i], FilteredFields)]

\* Mutant: the file is opened before the records are looked at.
generate_filtered_lttd_csv_NoGuard ==
    /\ pc = "filtered_csv"
    /\ files' = DictSet(files, OutputFile, FilteredCsvRows(filtered_records))
    /\ pc' = "done"
    /\ UNCHANGED <<call, exc, results, requests_log, responses_log, min_lttd_days, lttd_data,
                   key_idx, records, record, lttd_eligible, lttd_days, matched,
                   filtered_records, enriched, fetch_details, main_vars>>

\* fetcher.generate_filtered_lttd_csv(filtered_records, output_file)
generate_filtered_lttd_csv ==
    /\ pc = "filtered_csv"
    /\ IF filtered_records = <<>>
       THEN files' = files
       ELSE files' = DictSet(files, OutputFile, FilteredCsvRows(filtered_records))
    /\ pc' = "done"
    /\ UNCHANGED <<call, exc, results, requests_log, responses_log, min_lttd_days, lttd_data,
                   key_idx, records, record, lttd_eligible, lttd_days, matched,
                   filtered_records, enriched, fetch_details, main_vars>>

InitFiltered ==
    /\ pc = "ffl_lttd"
    /\ call = NoCall
    /\ exc = NoExc
    /\ results = EmptyResults
    /\ requests_log = <<>>
    /\ responses_log = <<>>
    /\ min_lttd_days \in {DefaultMinLttdDays, 20}
    /\ lttd_data = <<>>
    /\ key_idx = 0
    /\ records = <<>>
    /\ record = JNull
    /\ lttd_eligible = JNull
    /\ lttd_days = 0
    /\ matched = FALSE
    /\ filtered_records = <<>>
    /\ enriched = JNull
    /\ fetch_details = FALSE
    /\ files = <<>>
    /\ base_url = BaseUrl
    /\ bearer_token = BearerToken
    /\ args = FetchArgs
    /\ level_answer = "3"
    /\ report_type = "2"
    /\ confirm = "y"

NextFiltered == FflSend \/ FflLttdReturns \/ FflDetailsReturns \/ generate_filtered_lttd_csv

\* A filtered-report run: fetch_filtered_lttd_records, then
\* generate_filtered_lttd_csv.
SpecFiltered == InitFiltered /\ [][NextFiltered]_vars

---------------------------------------------------------------------------
(* main(): configuration, prompts and confirmation, then one of the two
   report flows (lines 698-841).  save_to_json, the optional raw dump written
   after the full report, is not modelled. *)

\* int(s) on the answers below: s is stripped, then read as an optionally
\* signed run of decimal digits; anything else is a ValueError.
ToInt(s) ==
    LET body == StrStrip(s)
        signed == Len(body) > 0 /\ SubSeq(body, 1, 1) \in {"+", "-"}
        digits == IF signed THEN SubSeq(body, 2, Len(body)) ELSE body
    IN  IF AllDigits(digits)
        THEN [ok |-> TRUE,
              n |-> IF signed /\ SubSeq(body, 1, 1) = "-"
                    THEN 0 - DigitsValue(digits) ELSE DigitsValue(digits)]
        ELSE [ok |-> FALSE, error |-> "ValueError"]

\* config.json: not there, not readable as a JSON object, or an object that
\* may hold base_url and bearer_token.
ConfigValues(value) == {Absent, JNull, JStr(""), JStr(value)}

ConfigFiles ==
    {[kind |-> "absent", config |-> <<>>], [kind |-> "unreadable", config |-> <<>>]}
      \cup {[kind |-> "json",
             config |-> DictOf(<<Entry("base_url", b), Entry("bearer_token", t)>>)] :
                b \in ConfigValues(BaseUrl), t \in ConfigValues(BearerToken)}

\* os.getenv(name): None when the variable is not set
EnvValues(value) == {JNull, JStr(""), JStr(value)}

\* What the user types at the base-URL and token prompts.
TypedValues(value) == {"", "   ", " " \o value \o " "}

\* Lines 705-731 for one of the two settings: the config file's value, else
\* the environment's, else the stripped answer to the prompt.
Resolve(file, key, env, typed) ==
    LET from_file == IF file.kind = "json" THEN DictGet(file.config, key, JNull) ELSE JNull
        from_env == IF ~Truthy(from_file) THEN env ELSE from_file
    IN  IF ~Truthy(from_env) THEN StrStrip(typed) ELSE from_env.s

\* Lines 704-735: the configuration is resolved; without a base URL or a
\* token main() returns.
ResolveConfig ==
    /\ pc = "main_config"
    /\ \E file \in ConfigFiles, env_url \in EnvValues(BaseUrl), env_token \in EnvValues(BearerToken),
          typed_url \in TypedValues(BaseUrl), typed_token \in TypedValues(BearerToken) :
        LET url == Resolve(file, "base_url", env_url, typed_url)
            token == Resolve(file, "bearer_token", env_token, typed_token)
        IN  /\ base_url' = url
            /\ bearer_token' = token
            /\ pc' = IF url = "" \/ token = "" THEN "aborted" ELSE "main_params"
    /\ UNCHANGED <<call, exc, results, requests_log, responses_log, min_lttd_days, lttd_data,
                   key_idx, records, record, lttd_eligible, lttd_days, matched,
                   filtered_records, enriched, fetch_details, files,
                   args, level_answer, report_type, confirm>>

\* main()'s locals before the prompts have assigned them.
NoArgs == [from_date |-> "", to_date |-> "", teambook_ids |-> "", teambook_level |-> 0]

\* Lines 741-743: the date range and the teambook ids are read.
EnterParameters ==
    /\ pc = "main_params"
    /\ args' = [args EXCEPT !.from_date = StrStrip(" " \o FetchArgs.from_date),
                            !.to_date = StrStrip(FetchArgs.to_date \o " "),
                            !.teambook_ids = StrStrip(FetchArgs.teambook_ids)]
    /\ pc' = "main_level"
    /\ UNCHANGED <<call, exc, results, requests_log, responses_log, min_lttd_days, lttd_data,
                   key_idx, records, record, lttd_eligible, lttd_days, matched,
                   filtered_records, enriched, fetch_details, files,
                   base_url, bearer_token, level_answer, report_type, confirm>>

\* What the user types at the teambook-level prompt.
LevelAnswers == {"", "abc", "0", "6", "-1", "10", "1", " 5 "}

\* Mutant: the range test excludes its ends.
LevelInRange_Exclusive(teambook_level) == 1 < teambook_level /\ teambook_level < 5

\* 1 <= teambook_level <= 5
LevelInRange(teambook_level) == 1 <= teambook_level /\ teambook_level <= 5

\* Lines 745-753, one turn of the loop: an answer is read; the loop is left
\* with an integer in range and taken again otherwise.
LevelPrompt ==
    /\ pc = "main_level"
    /\ \E answer \in LevelAnswers :
        /\ level_answer' = answer
        /\ IF ToInt(answer).ok
           THEN /\ args' = [args EXCEPT !.teambook_level = ToInt(answer).n]
                /\ pc' = IF LevelInRange(ToInt(answer).n) THEN "main_type" ELSE "main_level"
           ELSE /\ args' = args
                /\ pc' = "main_level"
    /\ UNCHANGED <<call, exc, results, requests_log, responses_log, min_lttd_days, lttd_data,
                   key_idx, records, record, lttd_eligible, lttd_days, matched,
                   filtered_records, enriched, fetch_details, files,
                   base_url, bearer_token, report_type, confirm>>

\* What the user types at the report-type prompt, at the threshold prompt, at
\* the detail prompt and at the confirmation prompt.
ReportTypeAnswers == {"1", " 2 "}
MinLttdAnswers == {"", " 20 ", "abc"}
DetailAnswers == {"", "n", "y", " YES "}
ConfirmAnswers == {"", "n", "no", "yeah", "ye", " Y "}

\* Mutant: an empty answer counts as yes.
SaysYes_EmptyIsYes(answer) == StrLower(StrStrip(answer)) \in {"y", "yes", ""}

\* input(...).strip().lower() in ['y', 'yes']
SaysYes(answer) == StrLower(StrStrip(answer)) \in {"y", "yes"}

\* Lines 761-784 and 801-823: the report type is read, then the settings of
\* that report.  int(min_lttd) is outside any try.
SelectReport ==
    /\ pc = "main_type"
    /\ \E answer \in ReportTypeAnswers :
        /\ report_type' = StrStrip(answer)
        /\ IF StrStrip(answer) = "2"
           THEN \E min_lttd \in MinLttdAnswers :
                  /\ fetch_details' = fetch_details
                  /\ IF StrStrip(min_lttd) = ""
                     THEN /\ min_lttd_days' = DefaultMinLttdDays
                          /\ pc' = "main_confirm"
                          /\ exc' = exc
                     ELSE IF ToInt(StrStrip(min_lttd)).ok
                     THEN /\ min_lttd_days' = ToInt(StrStrip(min_lttd)).n
                          /\ pc' = "main_confirm"
                          /\ exc' = exc
                     ELSE /\ min_lttd_days' = min_lttd_days
                          /\ pc' = "crashed"
                          /\ exc' = Exc("ValueError", "invalid literal for int() with base 10")
           ELSE \E fetch_details_input \in DetailAnswers :
                  /\ fetch_details' = SaysYes(fetch_details_input)
                  /\ pc' = "main_confirm"
                  /\ UNCHANGED <<exc, min_lttd_days>>
    /\ UNCHANGED <<call, results, requests_log, responses_log, lttd_data,
                   key_idx, records, record, lttd_eligible, lttd_days, matched,
                   filtered_records, enriched, files,
                   base_url, bearer_token, args, level_answer, confirm>>

\* Lines 786-789 and 825-828: the confirmation is read; with a yes main() goes
\* on to the fetch of the chosen report, otherwise it returns.
Confirm ==
    /\ pc = "main_confirm"
    /\ \E answer \in ConfirmAnswers :
        /\ confirm' = StrLower(StrStrip(answer))
        /\ IF ~SaysYes(answer)
           THEN /\ pc' = "cancelled"
                /\ results' = results
           ELSE IF report_type = "2"
           THEN /\ pc' = "ffl_lttd"
                /\ results' = results
           ELSE /\ pc' = "fam_rf"
                /\ results' = NewResults(args)
    /\ UNCHANGED <<call, exc, requests_log, responses_log, min_lttd_days, lttd_data,
                   key_idx, records, record, lttd_eligible, lttd_days, matched,
                   filtered_records, enriched, fetch_details, files,
                   base_url, bearer_token, args, level_answer, report_type>>

InitMain ==
    /\ pc = "main_config"
    /\ call = NoCall
    /\ exc = NoExc
    /\ results = NewResults(NoArgs)
    /\ requests_log = <<>>
    /\ responses_log = <<>>
    /\ min_lttd_days = 0
    /\ lttd_data = <<>>
    /\ key_idx = 0
    /\ records = <<>>
    /\ record = JNull
    /\ lttd_eligible = JNull
    /\ lttd_days = 0
    /\ matched = FALSE
    /\ filtered_records = <<>>
    /\ enriched = JNull
    /\ fetch_details = FALSE
    /\ files = <<>>
    /\ base_url = ""
    /\ bearer_token = ""
    /\ args = NoArgs
    /\ level_answer = ""
    /\ report_type = ""
    /\ confirm = ""

NextMain ==
    \/ ResolveConfig \/ EnterParameters \/ LevelPrompt \/ SelectReport \/ Confirm
    \/ NextFull
    \/ NextFiltered

\* A run of main().
SpecMain == InitMain /\ [][NextMain]_vars

---------------------------------------------------------------------------
(* Claims checked on the enrichment alone (SpecEnrich) *)

\* A field that is present and not empty.
PresentStr(rec, field) ==
    /\ HasKey(rec.d, field)
    /\ DictGet(rec.d, field, Absent).t = "str"
    /\ DictGet(rec.d, field, Absent).s # ""

\* The host table of the enrichment, first match wins.
HostTable ==
    << [host |-> "github",    commits |-> "/commit/",   diff_prefix |-> "/commit/",   diff_suffix |-> ".diff"],
       [host |-> "gitlab",    commits |-> "/-/commit/", diff_prefix |-> "/-/commit/", diff_suffix |-> ".diff"],
       [host |-> "bitbucket", commits |-> "/commits/",  diff_prefix |-> "/diff/",     diff_suffix |-> ""] >>

Fallback == [host |-> "", commits |-> "/commit/", diff_prefix |-> "/diff/", diff_suffix |-> ""]

\* The row of the table that classifies a repo_link, case-insensitively.
RowFor(repo) ==
    LET hits == {i \in 1..Len(HostTable) : StrContains(HostTable[i].host, StrLower(repo))}
    IN  IF hits = {} THEN Fallback
        ELSE HostTable[CHOOSE i \in hits : \A j \in hits : i <= j]

\* C5: for a record with both repo_link and commit_id present,
\* _enrich_lttd_record sets commits_url and source_code_diff_url as the host
\* table says, classifying repo_link case-insensitively with precedence
\* github, gitlab, bitbucket, then the generic fallback; if repo_link or
\* commit_id is absent or empty, both derived URLs are the empty string.
C5_UrlDerivation ==
    pc = "enriched" =>
        LET repo == DictGet(record.d, "repo_link", Absent)
            commit == DictGet(record.d, "commit_id", Absent)
            commits_url == DictGet(enriched.d, "commits_url", Absent)
            diff_url == DictGet(enriched.d, "source_code_diff_url", Absent)
        IN  IF PresentStr(record, "repo_link") /\ PresentStr(record, "commit_id")
            THEN /\ commits_url = JStr(repo.s \o RowFor(repo.s).commits \o commit.s)
                 /\ diff_url = JStr(repo.s \o RowFor(repo.s).diff_prefix \o commit.s
                                      \o RowFor(repo.s).diff_suffix)
                 /\ repo.s = "https://github.com/org/repo" =>
                      /\ commits_url = JStr("https://github.com/org/repo/commit/abc123")
                      /\ diff_url = JStr("https://github.com/org/repo/commit/abc123.diff")
                 /\ repo.s = "https://BITBUCKET.org/gitlab/repo" =>
                      /\ commits_url = JStr("https://BITBUCKET.org/gitlab/repo/-/commit/abc123")
                      /\ diff_url = JStr("https://BITBUCKET.org/gitlab/repo/-/commit/abc123.diff")
            ELSE /\ commits_url = JStr("")
                 /\ diff_url = JStr("")

\* C5 witness: a record whose repo_link names gitlab as host and github in its
\* path, with a commit_id, has been enriched with the github templates.
C5_Witness ==
    /\ pc = "enriched"
    /\ DictGet(record.d, "repo_link", Absent) = JStr("https://gitlab.com/github-mirror/repo")
    /\ DictGet(record.d, "commit_id", Absent) = JStr("abc123")
    /\ DictGet(enriched.d, "commits_url", Absent) =
          JStr("https://gitlab.com/github-mirror/repo/commit/abc123")
    /\ DictGet(enriched.d, "source_code_diff_url", Absent) =
          JStr("https://gitlab.com/github-mirror/repo/commit/abc123.diff")

\* C6: enrichment is idempotent: enriching an enriched record returns it
\* unchanged, also when the record enriched first already carried
\* commits_url or source_code_diff_url values.
C6_EnrichIdempotent ==
    pc = "enriched_twice" => enriched = record

\* C6 witness: a record that came with a commits_url of its own (the key is
\* still in its original second place) has been enriched twice, and carries
\* the derived URL.
C6_Witness ==
    /\ pc = "enriched_twice"
    /\ DictKeys(enriched.d)[2] = "commits_url"
    /\ DictGet(enriched.d, "commits_url", Absent) =
          JStr("https://github.com/org/repo/commit/abc123")
    /\ DictGet(enriched.d, "source_code_diff_url", Absent) =
          JStr("https://github.com/org/repo/commit/abc123.diff")

---------------------------------------------------------------------------
(* Claims checked on the filter loop body (SpecFilter) *)

\* The value of a lead-time field is absent (missing or null) or not a number:
\* a string that is not a numeral, or a list.
AbsentOrNonNumeric(rec, field) ==
    LET v == DictGet(rec.d, field, Absent)
    IN  \/ v \in {Absent, JNull}
        \/ v.t = "list"
        \/ v.t = "str" /\ v.s \in {"abc", "", "N/A"}

\* C3: a detail record is retained if and only if its lttd_eligible field
\* equals (the boolean) true and its coerced lead-time value is strictly
\* greater than min_lttd_days; a value equal to the threshold is excluded, and
\* so is a record whose eligibility field is absent, false, or any value other
\* than the boolean true.
C3_FilterLaw ==
    pc = "filtered" =>
        (matched <=> (DictGet(record.d, "lttd_eligible", Absent) = JBool(TRUE)
                        /\ lttd_days > min_lttd_days))

\* C4: a record whose lead-time fields are absent or non-numeric has its
\* lead-time value coerced to 0, and for every positive threshold it is not
\* retained, whatever its eligibility flag.
C4_NonNumericIsZero ==
    (/\ pc = "filtered"
     /\ AbsentOrNonNumeric(record, "lead_time_to_deploy_numeric_days")
     /\ AbsentOrNonNumeric(record, "lead_time_to_deploy_days")) =>
        /\ lttd_days = 0
        /\ exc = NoExc
        /\ min_lttd_days > 0 => (~matched /\ filtered_records = <<>>)

\* C4 witness: a record flagged eligible whose first lead-time field is a
\* string that is no number and whose second is absent went through the loop
\* body with the default threshold: coerced to 0 and not retained.
C4_Witness ==
    /\ pc = "filtered"
    /\ min_lttd_days = DefaultMinLttdDays
    /\ DictGet(record.d, "lttd_eligible", Absent) = JBool(TRUE)
    /\ DictGet(record.d, "lead_time_to_deploy_numeric_days", Absent) = JStr("abc")
    /\ ~HasKey(record.d, "lead_time_to_deploy_days")
    /\ lttd_days = 0
    /\ ~matched

---------------------------------------------------------------------------
(* Claims checked on a filtered-report run (SpecFiltered) *)

\* The column-header row of the filtered report: the fifth row written.
FilteredHeaderRow == ReportRows[5]

\* C8 as stated: the column-header row of a written filtered report has
\* exactly 47 columns.
C8_Header47Columns ==
    HasKey(files, OutputFile) => Len(FilteredHeaderRow) = 47

\* C8 as amended: the column-header row of a written filtered report has
\* exactly 48 columns, from 'ID' to 'Source Code Diff URL (Generated)', the
\* same for every input, and every data row has one cell per column.
C8_Header48Columns ==
    HasKey(files, OutputFile) =>
        LET rows == ReportRows
            header == rows[5]
        IN  /\ Len(rows) = 5 + Len(filtered_records)
            /\ Len(header) = 48
            /\ header = StrRow(FilteredHeaders)
            /\ header[1] = JStr("ID")
            /\ header[47] = JStr("Commits URL (Generated)")
            /\ header[48] = JStr("Source Code Diff URL (Generated)")
            /\ Cardinality({header[i] : i \in 1..48}) = 48
            /\ \A i \in 6..Len(rows) : Len(rows[i]) = 48

\* C8 witness: a filtered report has been written for two retained records.
C8_Witness ==
    /\ pc = "done"
    /\ HasKey(files, OutputFile)
    /\ Len(filtered_records) = 2
    /\ filtered_records[1] # filtered_records[2]

\* C9: when the filtered record sequence is empty (every detail record failed
\* the filter, or a fetch failed), the filtered-report run never creates the
\* output file; a file exists only once at least one record was retained.
C9_NoFileWhenEmpty ==
    /\ filtered_records = <<>> => files = <<>>
    /\ pc # "done" => files = <<>>
    /\ files # <<>> =>
        /\ Len(filtered_records) >= 1
        /\ ReportRows[3] = <<JStr("Total Records:"), JNum(Len(filtered_records))>>

\* C9 witness: the run is over, the one detail record fetched (lead time "10"
\* against a threshold of 15) was not retained, and there is no file.
C9_Witness ==
    /\ pc = "done"
    /\ min_lttd_days = DefaultMinLttdDays
    /\ Len(responses_log) = 2
    /\ responses_log[2] =
          Response(200, RecordsBody(<<DetailRecord("CR3", JBool(TRUE), JStr("10"),
                                                   "https://github.com/org/repo")>>))
    /\ filtered_records = <<>>
    /\ files = <<>>

\* The filter as the specification states it: eligible is the boolean true
\* and the coerced lead time is strictly above the threshold.
PassesFilter(rec, threshold) ==
    /\ DictGet(rec.d, "lttd_eligible", Absent) = JBool(TRUE)
    /\ CoerceDays(rec) > threshold

\* The detail records a records response delivers (none when it failed).
DeliveredRecords(outcome) ==
    IF HttpSucceeded(outcome) /\ HasKey(outcome.body.d, "data")
    THEN DictGet(outcome.body.d, "data", JList(<<>>)).xs
    ELSE <<>>

RECURSIVE EnrichedPassing(_, _)
EnrichedPassing(recs, threshold) ==
    IF recs = <<>> THEN <<>>
    ELSE (IF PassesFilter(Head(recs), threshold)
          THEN <<_enrich_lttd_record(Head(recs))>> ELSE <<>>)
            \o EnrichedPassing(Tail(recs), threshold)

RECURSIVE ExpectedFrom(_, _)
\* Over the records responses in the order they arrived (one per aggregation
\* key, in the order of the metric records): the enrichment of the passing
\* records of each.
ExpectedFrom(outcomes, threshold) ==
    IF outcomes = <<>> THEN <<>>
    ELSE EnrichedPassing(DeliveredRecords(Head(outcomes)), threshold)
           \o ExpectedFrom(Tail(outcomes), threshold)

\* The aggregation keys of the lead-time metric response, in order.
KeysOf(outcome) ==
    LET rows == IF HttpSucceeded(outcome) /\ HasKey(outcome.body.d, "data")
                THEN DictGet(outcome.body.d, "data", JList(<<>>)).xs ELSE <<>>
    IN  SelectSeq([i \in 1..Len(rows) |-> AggKeyOf(rows[i])],
                  LAMBDA k : k # JNull /\ k # JStr(""))

\* C10: the sequence fetch_filtered_lttd_records returns is exactly the
\* enrichment of every detail record that passes the filter, over the
\* aggregation keys of the lead-time metric response in the order of the
\* metric records and, within a key, in the order of the detail records;
\* nothing else is added and no passing record is dropped.
C10_ResultIsEnrichedPassing ==
    pc \in {"filtered_csv", "done"} =>
        /\ [i \in 2..Len(requests_log) |-> requests_log[i].params.aggKey]
              = [i \in 2..(Len(KeysOf(responses_log[1])) + 1) |->
                    KeysOf(responses_log[1])[i - 1].s]
        /\ filtered_records = ExpectedFrom(Tail(responses_log), min_lttd_days)

---------------------------------------------------------------------------
(* Claims checked on a run of main() (SpecMain) *)

RECURSIVE ProcessedFrom(_, _)
\* What the record loop has appended once each of `outcomes`, the records
\* responses received so far, has gone through it.
ProcessedFrom(outcomes, threshold) ==
    IF outcomes = <<>> THEN <<>>
    ELSE FilterRecords(DeliveredRecords(Head(outcomes)), threshold)
           \o ProcessedFrom(Tail(outcomes), threshold)

\* The number of requests issued and not yet answered.
Outstanding == Len(requests_log) - Len(responses_log)

\* C11: at every point of a run at most one HTTP request is outstanding: a
\* request is issued only after the previous one has returned, and in the
\* detail fan-out of either flow the request for the next aggregation key is
\* issued only after the current key's response has been processed (stored in
\* the bundle, or filtered and appended to the result).
C11_OneRequestAtATime ==
    /\ Outstanding \in {0, 1}
    /\ Outstanding = 1 <=> call.state = "sent"
    /\ call.state = "sent" => call.request = requests_log[Len(requests_log)]
    /\ call.state = "returned" =>
        /\ call.request = requests_log[Len(requests_log)]
        /\ call.outcome = responses_log[Len(responses_log)]
    /\ (call.state = "sent" /\ pc = "fam_details") =>
        /\ Len(results.metrics) = 4
        /\ DictKeys(results.detailed_records) =
              [i \in 1..(Len(requests_log) - 5) |-> requests_log[i + 4].params.aggKey]
    /\ (call.state = "sent" /\ pc = "ffl_details") =>
        filtered_records = ProcessedFrom(Tail(responses_log), min_lttd_days)

\* C11 witness: in the filtered flow the request for the second aggregation
\* key is on the wire, and the record retained from the first key's response
\* is already in the result.
C11_Witness ==
    /\ pc = "ffl_details"
    /\ call.state = "sent"
    /\ Len(requests_log) = 3
    /\ Len(responses_log) = 2
    /\ call.request.params.aggKey = "K2"
    /\ Len(filtered_records) = 1

\* The positions of main() before the confirmation has been given.
BeforeConfirmation == {"main_config", "main_params", "main_level", "main_type", "main_confirm"}

\* C12: in a run of main no HTTP request is issued unless the resolved base
\* URL and bearer token are both non-empty and the user has then answered y
\* or yes at the confirmation step; with either setting missing the run
\* aborts, and with any other confirmation it ends, in both cases with no
\* network call and no output file.
C12_NoRequestBeforeConfirmation ==
    /\ requests_log # <<>> =>
        /\ base_url # ""
        /\ bearer_token # ""
        /\ confirm \in {"y", "yes"}
    /\ pc \in BeforeConfirmation \cup {"aborted", "cancelled"} =>
        /\ requests_log = <<>>
        /\ responses_log = <<>>
        /\ call = NoCall
        /\ files = <<>>
    /\ (pc # "main_config" /\ (base_url = "" \/ bearer_token = "")) => pc = "aborted"
    /\ pc = "aborted" => (base_url = "" \/ bearer_token = "")
    /\ pc = "cancelled" => confirm \notin {"y", "yes"}
    /\ (pc \notin BeforeConfirmation /\ confirm \notin {"y", "yes"}) =>
        pc \in {"aborted", "cancelled", "crashed"}

\* C12 witness: with both settings resolved and the confirmation given, the
\* first request of the full report is on the wire.
C12_Witness ==
    /\ base_url = BaseUrl
    /\ bearer_token = BearerToken
    /\ confirm = "y"
    /\ pc = "fam_rf"
    /\ call.state = "sent"
    /\ Len(requests_log) = 1

\* The answers that name a teambook level: a numeral from 1 to 5, with or
\* without blanks around it.
NamesALevel(answer) == StrStrip(answer) \in {"1", "2", "3", "4", "5"}

\* C14: every metric request the program issues carries a grouping level in
\* 1..5, a page >= 1 and a size >= 1; the level prompt is shown again after
\* every answer that is out of range or no integer, and main() goes past it
\* only with a value in 1..5.
C14_LevelInRange ==
    /\ \A i \in 1..Len(requests_log) :
          /\ requests_log[i].params.page >= 1
          /\ requests_log[i].params.size >= 1
          /\ requests_log[i].op # "fetch_lttd_records" =>
                /\ requests_log[i].params.teambookLevel \in 1..5
                /\ requests_log[i].params.teambookLevel = args.teambook_level
    /\ pc = "main_level" => ~NamesALevel(level_answer)
    /\ pc \notin {"main_config", "main_params", "main_level", "aborted"} =>
          /\ NamesALevel(level_answer)
          /\ args.teambook_level \in 1..5
          /\ ToInt(level_answer) = [ok |-> TRUE, n |-> args.teambook_level]

\* C14 witness: the prompt has just turned down the answer 6 and is shown
\* again, the level read from it still out of range.
C14_Witness ==
    /\ pc = "main_level"
    /\ level_answer = "6"
    /\ args.teambook_level = 6
    /\ requests_log = <<>>

---------------------------------------------------------------------------
(* Further claims checked on a full-report run (SpecFull) *)

\* The four metric operations in the order fetch_all_metrics calls them.
MetricOrder == <<"fetch_release_frequency", "fetch_lttd", "fetch_mttr", "fetch_cfr">>

\* C13: in fetch_all_metrics a failing metric fetch does not stop the run: the
\* four metric requests are issued in the order release frequency, lead time,
\* MTTR, change failure rate, the bundle holds a result (success or error)
\* under each of the four metric names, and the report has all four sections.
C13_AllFourMetrics ==
    /\ pc # "crashed"
    /\ \A i \in 1..Len(requests_log) :
          IF i <= 4 THEN requests_log[i].op = MetricOrder[i]
          ELSE requests_log[i].op = "fetch_lttd_records"
    /\ DictKeys(results.metrics) = [i \in 1..Len(results.metrics) |-> SectionKey[i]]
    /\ \A i \in 1..Len(results.metrics) : results.metrics[i].v.status \in {"success", "error"}
    /\ Len(results.metrics) =
          IF Len(responses_log) < 4 THEN Len(responses_log) ELSE 4
    /\ pc \in {"fam_details", "report", "done"} => Len(results.metrics) = 4
    /\ pc = "done" =>
          LET rows == ReportRows
              at == [k \in 1..4 |-> TitleRows(rows, k)]
          IN  /\ \A k \in 1..4 : Cardinality(at[k]) = 1
              /\ \A k \in 1..3 : \A i \in at[k], j \in at[k + 1] : i < j

\* C13 witness: every one of the four metric fetches failed, and the report
\* is written.
C13_Witness ==
    /\ pc = "done"
    /\ Len(results.metrics) = 4
    /\ \A i \in 1..4 : results.metrics[i].v.status = "error"
    /\ Len(requests_log) = 4
    /\ HasKey(files, OutputFile)

\* The line that opens the rows of aggregation key k.
KeyLine(k) == <<JStr("Aggregation Key: " \o k)>>

\* C17: in the detailed-records section, for each aggregation key the columns
\* are the keys of that key's first detail record, every detail row of the key
\* has one cell per column, a record lacking a column has the empty string in
\* that cell, and a key whose detail fetch failed or returned no records has
\* only its 'Aggregation Key:' line.
C17_DetailColumns ==
    (pc = "done" /\ results.has_detailed_records /\ results.detailed_records # <<>>) =>
        LET rows == ReportRows
            details == results.detailed_records
            at == [e \in 1..Len(details) |->
                      {i \in 1..Len(rows) : rows[i] = KeyLine(details[e].k)}]
            start == [e \in 1..(Len(details) + 1) |->
                        IF e <= Len(details) /\ at[e] # {}
                        THEN CHOOSE i \in at[e] : TRUE ELSE Len(rows) + 1]
        IN  \A e \in 1..Len(details) :
              LET recs == MetricRows(details[e].v)
                  p == start[e]
              IN  /\ Cardinality(at[e]) = 1
                  /\ IF recs = <<>>
                     THEN /\ start[e + 1] = p + 2
                          /\ rows[p + 1] = <<>>
                     ELSE LET cols == DictKeys(recs[1].d)
                          IN  /\ start[e + 1] = p + Len(recs) + 3
                              /\ rows[p + 1] = StrRow(cols)
                              /\ rows[p + Len(recs) + 2] = <<>>
                              /\ \A i \in 1..Len(recs) :
                                    /\ Len(rows[p + 1 + i]) = Len(cols)
                                    /\ \A c \in 1..Len(cols) :
                                          rows[p + 1 + i][c] =
                                              IF HasKey(recs[i].d, cols[c])
                                              THEN DictGet(recs[i].d, cols[c], JNull)
                                              ELSE JStr("")

\* C17 witness: the report shows, under one key, a record that lacks the
\* second column of the key's first record, and a second key whose detail
\* fetch failed.
C17_Witness ==
    /\ pc = "done"
    /\ Len(results.detailed_records) = 2
    /\ results.detailed_records[2].v.status = "error"
    /\ \E i \in 1..(Len(ReportRows) - 2) :
          /\ ReportRows[i] = StrRow(<<"id", "lttd_eligible">>)
          /\ ReportRows[i + 1] = <<JStr("CR1"), JBool(TRUE)>>
          /\ ReportRows[i + 2] = <<JStr("CR2"), JStr("")>>

---------------------------------------------------------------------------
(* Further claims checked on the filter loop body (SpecFilter) *)

\* The number a lead-time field holds, if it holds one.
NumberIn(rec, field) ==
    IF AbsentOrNonNumeric(rec, field) THEN [ok |-> FALSE, error |-> "none"]
    ELSE ToFloat(DictGet(rec.d, field, JNull))

\* C15: the lead-time value compared with the threshold is taken from
\* lead_time_to_deploy_numeric_days, falling back to lead_time_to_deploy_days,
\* and is 0 only if both fields are absent or non-numeric; a record whose
\* first field is non-numeric and whose second is a number is compared using
\* the second.
C15_FallsBackToSecondField ==
    pc = "filtered" =>
        lttd_days =
            IF NumberIn(record, "lead_time_to_deploy_numeric_days").ok
            THEN NumberIn(record, "lead_time_to_deploy_numeric_days").n
            ELSE IF NumberIn(record, "lead_time_to_deploy_days").ok
            THEN NumberIn(record, "lead_time_to_deploy_days").n
            ELSE 0

---------------------------------------------------------------------------
(* Further claims checked on a filtered-report run (SpecFiltered) *)

\* The requests the claim expects once the lead-time metric response is
\* known: the metric request, then one records request per aggregation key.
ExpectedRequests ==
    <<MetricRequest("fetch_lttd", args, 1, 50)>>
      \o (IF responses_log = <<>> THEN <<>>
          ELSE LET keys == KeysOf(responses_log[1])
               IN  [i \in 1..Len(keys) |-> RecordsRequest(keys[i].s, 1, 100)])

\* C16: fetch_filtered_lttd_records issues one lead-time metric request
\* first and then, for each metric record of that response with a non-empty
\* aggKey, one detail request with that key, page 1 and size 100, in the
\* order of the metric records; a metric record without an aggKey causes no
\* request, no further page is requested, and the operation ends after the
\* last key.
C16_OneRequestPerKey ==
    /\ Len(requests_log) <= Len(ExpectedRequests)
    /\ requests_log = SubSeq(ExpectedRequests, 1, Len(requests_log))
    /\ pc \in {"filtered_csv", "done"} =>
        /\ requests_log = ExpectedRequests
        /\ Len(responses_log) = Len(requests_log)
        /\ call.state = "returned"
    /\ pc = "ffl_details" => Len(responses_log) < Len(ExpectedRequests)

\* C16 witness: the metric response held a record without aggKey and then a
\* record with aggKey K2, and the run ended after two requests.
C16_Witness ==
    /\ pc = "done"
    /\ responses_log[1] = Response(200, MetricBody(<<LttdRecordNoKey, LttdRecord("K2")>>))
    /\ Len(requests_log) = 2
    /\ requests_log[2] = RecordsRequest("K2", 1, 100)

---------------------------------------------------------------------------
(* Further claims checked on the enrichment alone (SpecEnrich) *)

DerivedKeys == {"commits_url", "source_code_diff_url"}

KeySet(rec) == {rec.d[i].k : i \in 1..Len(rec.d)}

\* `out` carries the keys of `rec` and the two derived keys, no other, each
\* once, and holds what `rec` holds under every key other than the derived two.
PlusDerivedFields(rec, out) ==
    /\ out.t = "dict"
    /\ KeySet(out) = KeySet(rec) \cup DerivedKeys
    /\ Len(out.d) = Cardinality(KeySet(out))
    /\ \A k \in KeySet(rec) \ DerivedKeys :
          DictGet(out.d, k, Absent) = DictGet(rec.d, k, Absent)

\* C18: _enrich_lttd_record leaves its input record unchanged and returns a
\* record that agrees with the input on every field other than commits_url
\* and source_code_diff_url: an enriched record is the detail record plus
\* exactly those two derived fields.
C18_InputKeptAndExtended ==
    [][pc = "enrich" => /\ record' = record
                        /\ PlusDerivedFields(record, enriched')]_vars

\* C18 witness: a record that carried a commits_url of its own and no
\* source_code_diff_url has been enriched: the result has the derived URLs and
\* the record still has what it came with.
C18_Witness ==
    /\ pc = "enriched"
    /\ DictGet(record.d, "commits_url", Absent) = JStr("https://old.example.com/commit/0")
    /\ ~HasKey(record.d, "source_code_diff_url")
    /\ DictGet(record.d, "id", Absent) = JStr("CR1")
    /\ DictGet(enriched.d, "id", Absent) = JStr("CR1")
    /\ DictGet(enriched.d, "commits_url", Absent) =
          JStr("https://gitlab.com/org/repo/-/commit/abc123")
    /\ DictGet(enriched.d, "source_code_diff_url", Absent) =
          JStr("https://gitlab.com/org/repo/-/commit/abc123.diff")

---------------------------------------------------------------------------
(* Claims on failed and empty fetches of a filtered-report run (SpecFiltered) *)

\* The fetch failed (transport failure, non-2xx status, unparseable body) or
\* delivered nothing: a body without data, or with an empty data list.
FailedOrEmpty(outcome) == DeliveredRecords(outcome) = <<>>

\* A failed or empty lead-time metric fetch: the operation has returned, with
\* no detail request and an empty result.
MetricFailureEndsRun ==
    (pc # "done" /\ responses_log # <<>> /\ FailedOrEmpty(responses_log[1])) =>
        /\ Len(requests_log) = 1
        /\ filtered_records = <<>>
        /\ pc = "filtered_csv"

\* At the return: after a failed or empty detail fetch, every later key was
\* requested and the passing records of its response are in the result.
LaterKeysServed ==
    pc = "filtered_csv" =>
        \A i \in 2..Len(responses_log) :
            FailedOrEmpty(responses_log[i]) =>
                /\ Len(requests_log) = Len(ExpectedRequests)
                /\ Len(responses_log) = Len(ExpectedRequests)
                /\ \A j \in (i + 1)..Len(ExpectedRequests) :
                      /\ requests_log[j] = ExpectedRequests[j]
                      /\ LET passing == EnrichedPassing(DeliveredRecords(responses_log[j]),
                                                        min_lttd_days)
                         IN  \A k \in 1..Len(passing) :
                                \E m \in 1..Len(filtered_records) :
                                    filtered_records[m] = passing[k]

\* C19: in fetch_filtered_lttd_records, a failed or empty lead-time metric
\* fetch yields an empty result with no detail request issued, and a failed
\* or empty detail fetch for one aggregation key contributes no records but
\* does not stop the fan-out: every later aggregation key is still requested
\* and its passing records still appear in the result.
C19_FailuresAreSkipped ==
    [][/\ MetricFailureEndsRun
       /\ LaterKeysServed
       /\ (Len(responses_log) >= 1 /\ Len(responses_log') = Len(responses_log) + 1
             /\ FailedOrEmpty(responses_log'[Len(responses_log')])) =>
                /\ filtered_records' = filtered_records
                /\ pc' = IF Len(responses_log') < Len(ExpectedRequests)
                         THEN "ffl_details" ELSE "filtered_csv"]_vars

\* C19 witness: the detail fetch of the first of two keys failed, the second
\* was requested and delivered a passing record, which is the result.
C19_Witness ==
    /\ pc = "done"
    /\ Len(responses_log) = 3
    /\ responses_log[2].kind = "raise"
    /\ requests_log[3] = RecordsRequest("K2", 1, 100)
    /\ responses_log[3] =
          Response(200, RecordsBody(<<DetailRecord("CR1", JBool(TRUE), JStr("20"),
                                                   "https://github.com/org/repo")>>))
    /\ Len(filtered_records) = 1
    /\ DictGet(filtered_records[1].d, "id", Absent) = JStr("CR1")

=============================================================================
